---- MODULE Spec2Model ----
(***************************************************************************)
(* State-machine model of the trading-crew platform.                       *)
(*                                                                         *)
(*   SpecTrade   : RiskAgent.assess -> Coordinator.aggregate ->            *)
(*                 ExecutionAgent.execute (paper and live retry loop)      *)
(*   SpecMarket  : MarketDataClient.get_trade_inputs with the per-provider *)
(*                 circuit breaker                                         *)
(*   SpecDataset : DatasetBuilder.build with the holdout lock, regime      *)
(*                 balancing, replay injection and pair construction       *)
(*   SpecRisk    : RiskAgent.assess over the RiskContext domain            *)
(*   SpecEvaluator : Evaluator.compute_metrics and its subsampling         *)
(*   SpecPromotion : Evaluator.evaluate_promotion -> Promoter.resolve      *)
(*   SpecTrainer : TrainerAgent.begin_run / complete_run from threads      *)
(*   SpecKraken  : KrakenOrderManager.place_order                          *)
(*   SpecMarketTasks : several get_trade_inputs tasks on one client,       *)
(*                 interleaved at their awaits                             *)
(*   SpecRegistry : AdapterRegistry.register / latest_for_agent on one     *)
(*                 registry file, from several writers                     *)
(*   SpecExecute : ExecutionAgent.execute run as a task that can be        *)
(*                 cancelled                                               *)
(*                                                                         *)
(* Units.  Fractions of the source are scaled integers: position sizes and *)
(* risk limits in basis points (0.02 = 200), confidences and raw agent     *)
(* weights in percent (0.60 = 60).  Normalised weights and vote scores are *)
(* exact rationals kept as numerator/denominator.                          *)
(***************************************************************************)
EXTENDS Integers, Sequences, FiniteSets, TLC

VARIABLES
    \* ---- trading loop
    weights,          \* Coordinator._weights (normalised)
    risk_assessment,  \* the RiskAssessment handed to Coordinator.aggregate
    responses,        \* the responses handed to Coordinator.aggregate
    decision,         \* the TradeDecision handed to ExecutionAgent.execute
    origin,           \* who built `decision`: "aggregate" | "direct" | "none"
    live_trading,     \* ExecutionAgent.live_trading
    max_retries,      \* ExecutionAgent.max_retries
    exec,             \* the running ExecutionAgent.execute coroutine
    phase,            \* position of the trading loop
    \* ---- market data client
    now,              \* wall clock, seconds
    provider_state,   \* MarketDataClient._provider_state
    fail_streak,      \* per provider: failed fetches since its last fresh snapshot
    call,             \* the running get_trade_inputs coroutine
    \* ---- dataset builder
    holdout_lock,     \* <output_dir>/holdout_lock.json: whether it exists, its test_ids
    lock_writes,      \* number of times holdout_lock.json was written
    rng_draws,        \* number of values drawn so far from DatasetBuilder._rng
    files,            \* the train/validation/test files written last (build reads none back)
    last_build,       \* inputs and outcome of the last build call
    \* ---- risk agent on its own
    risk_context,     \* the RiskContext of the last RiskAgent.assess call
    risk_result,      \* the RiskAssessment it returned
    \* ---- evaluator metrics
    eval_rng,         \* 32-bit words drawn so far from Evaluator._rng
    metrics_call,     \* the last compute_metrics call: predictions and outcome
    \* ---- promotion gate
    promotion_call,   \* the evaluate_promotion call: arguments and decision
    resolve_call,     \* the Promoter.resolve call: arguments and result
    \* ---- trainer agent
    training_state,   \* TrainerAgent._state
    trainer_lock,     \* owner of TrainerAgent._lock, or None
    callers,          \* per thread: the call it is in and what begin_run returned to it
    misuse,           \* complete_run was called by a thread that holds no run
    \* ---- kraken order manager
    kraken_client,    \* KrakenOrderManager._client is set
    kraken_call,      \* the running place_order coroutine
    \* ---- adapter registry
    registry_file,    \* adapter_registry.json: its last complete content, whether truncated
    registrars,       \* per writer: the register call it is in
    registered,       \* the records register has returned, in order of return
    lookup,           \* the last latest_for_agent call
    \* ---- concurrent market data calls
    tasks             \* per task: its running get_trade_inputs coroutine

tradeVars   == <<weights, risk_assessment, responses, decision, origin,
                 live_trading, max_retries, exec, phase>>
marketVars  == <<now, provider_state, fail_streak, call>>
datasetVars == <<holdout_lock, lock_writes, rng_draws, files, last_build>>
riskVars    == <<risk_context, risk_result>>
evalVars    == <<eval_rng, metrics_call>>
promotionVars == <<promotion_call, resolve_call>>
trainerVars == <<training_state, trainer_lock, callers, misuse>>
krakenVars  == <<kraken_client, kraken_call>>
registryVars == <<registry_file, registrars, registered, lookup>>
vars        == <<tradeVars, marketVars, datasetVars, riskVars, evalVars,
                 promotionVars, trainerVars, krakenVars, registryVars, tasks>>

\* What the actions of one component leave alone.
notTrade    == <<marketVars, datasetVars, riskVars, evalVars, promotionVars,
                 trainerVars, krakenVars, registryVars, tasks>>
notMarket   == <<tradeVars, datasetVars, riskVars, evalVars, promotionVars,
                 trainerVars, krakenVars, registryVars, tasks>>
notDataset  == <<tradeVars, marketVars, riskVars, evalVars, promotionVars,
                 trainerVars, krakenVars, registryVars, tasks>>
notRisk     == <<tradeVars, marketVars, datasetVars, evalVars, promotionVars,
                 trainerVars, krakenVars, registryVars, tasks>>
notEval     == <<tradeVars, marketVars, datasetVars, riskVars, promotionVars,
                 trainerVars, krakenVars, registryVars, tasks>>
notPromotion == <<tradeVars, marketVars, datasetVars, riskVars, evalVars,
                 trainerVars, krakenVars, registryVars, tasks>>
notTrainer  == <<tradeVars, marketVars, datasetVars, riskVars, evalVars,
                 promotionVars, krakenVars, registryVars, tasks>>
notKraken   == <<tradeVars, marketVars, datasetVars, riskVars, evalVars,
                 promotionVars, trainerVars, registryVars, tasks>>
notRegistry == <<tradeVars, marketVars, datasetVars, riskVars, evalVars,
                 promotionVars, trainerVars, krakenVars, tasks>>
notTasks    == <<tradeVars, call, datasetVars, riskVars, evalVars,
                 promotionVars, trainerVars, krakenVars, registryVars>>

None == "None"

Min(a, b) == IF a <= b THEN a ELSE b
Max(a, b) == IF a >= b THEN a ELSE b
Abs(n)    == IF n < 0 THEN 0 - n ELSE n

RECURSIVE SumOver(_, _)
SumOver(f, S) ==
    IF S = {} THEN 0
    ELSE LET a == CHOOSE x \in S : TRUE IN f[a] + SumOver(f, S \ {a})

(***************************************************************************)
(* RiskAgent  (agents/risk_agent.py)                                       *)
(***************************************************************************)
max_position_pct              == 200    \* 0.02, basis points
max_daily_drawdown_pct        == 500    \* 0.05
max_correlated_exposure_pct   == 1000   \* 0.10
no_trade_event_window_minutes == 5
min_history_days              == 30

_reject(reason, adjusted_size) ==
    [approved |-> FALSE, reason |-> reason, adjusted_size |-> adjusted_size]

\* assess with the sector check moved in front of the drawdown check.
assess_sector_first(context) ==
    IF context.sector_exposure_pct > max_correlated_exposure_pct
    THEN _reject("Sector correlated exposure exceeds 10%.", 0)
    ELSE IF context.current_daily_drawdown_pct >= max_daily_drawdown_pct
    THEN _reject("Daily drawdown breach: trading halted.", 0)
    ELSE IF Abs(context.minutes_to_major_event) <= no_trade_event_window_minutes
    THEN _reject("Within major economic event no-trade window.", 0)
    ELSE IF context.instrument_history_days < min_history_days
    THEN _reject("Instrument has fewer than 30 days of history.", 0)
    ELSE IF context.proposed_position_value * 10000
                > context.portfolio_value * max_position_pct
    THEN [approved |-> TRUE,
          reason |-> "Position size adjusted to risk limit.",
          adjusted_size |-> max_position_pct]
    ELSE [approved |-> TRUE, reason |-> "Approved",
          adjusted_size |-> (context.proposed_position_value * 10000)
                               \div context.portfolio_value]

\* RiskAgent.assess.  The context's percentages are basis points; the
\* quotient proposed/portfolio is exact for the contexts enumerated below.
assess(context) ==
    LET adjusted_size ==
            Min(IF context.portfolio_value > 0
                THEN (context.proposed_position_value * 10000) \div context.portfolio_value
                ELSE 0,
                max_position_pct)
    IN  IF context.current_daily_drawdown_pct >= max_daily_drawdown_pct
        THEN _reject("Daily drawdown breach: trading halted.", 0)
        ELSE IF Abs(context.minutes_to_major_event) <= no_trade_event_window_minutes
        THEN _reject("Within major economic event no-trade window.", 0)
        ELSE IF context.instrument_history_days < min_history_days
        THEN _reject("Instrument has fewer than 30 days of history.", 0)
        ELSE IF context.sector_exposure_pct > max_correlated_exposure_pct
        THEN _reject("Sector correlated exposure exceeds 10%.", 0)
        ELSE IF context.proposed_position_value * 10000
                    > context.portfolio_value * max_position_pct
        THEN [approved |-> TRUE,
              reason |-> "Position size adjusted to risk limit.",
              adjusted_size |-> max_position_pct]
        ELSE [approved |-> TRUE, reason |-> "Approved", adjusted_size |-> adjusted_size]

(***************************************************************************)
(* Coordinator  (agents/coordinator.py)                                    *)
(***************************************************************************)
min_confidence        == 60     \* 0.60, percent
default_position_size == 100    \* 0.01, basis points
min_agent_weight      == 5      \* 0.05, percent

\* Coordinator._normalize_weights: each weight is the rational num/den.
_normalize_weights(raw_weights) ==
    IF DOMAIN raw_weights = {} THEN << >>
    ELSE LET floored == [agent \in DOMAIN raw_weights |->
                            Max(raw_weights[agent], min_agent_weight)]
             total   == SumOver(floored, DOMAIN floored)
         IN  IF total <= 0
             THEN [agent \in DOMAIN floored |->
                      [num |-> 1, den |-> Cardinality(DOMAIN floored)]]
             ELSE [agent \in DOMAIN floored |-> [num |-> floored[agent], den |-> total]]

\* The common denominator of the normalised weights (1 when there are none).
WeightDen(w) ==
    IF DOMAIN w = {} THEN 1 ELSE w[CHOOSE a \in DOMAIN w : TRUE].den

\* Vote scores are kept as integers over this denominator:
\* confidence/100 * num/den = confidence * num * 100 / (10000 * den).
VoteScale(w) == 10000 * WeightDen(w)

\* valid_responses without the status test.
valid_responses_any_status(rs) ==
    SelectSeq(rs, LAMBDA response : response.confidence >= min_confidence)

valid_responses(rs) ==
    SelectSeq(rs, LAMBDA response :
        response.status = "success" /\ response.confidence >= min_confidence)

\* `votes` is the defaultdict of aggregate, in insertion order.
VoteIndex(votes, d) ==
    IF \E i \in 1..Len(votes) : votes[i].direction = d
    THEN CHOOSE i \in 1..Len(votes) : votes[i].direction = d
    ELSE 0

RECURSIVE accumulate_votes(_, _, _)
accumulate_votes(rs, w, votes) ==
    IF rs = << >> THEN votes
    ELSE LET response == Head(rs)
             weight == IF response.agent_id \in DOMAIN w
                       THEN w[response.agent_id].num * 100
                       ELSE min_agent_weight * WeightDen(w)
             add == response.confidence * weight
             i   == VoteIndex(votes, response.direction)
         IN  accumulate_votes(
                 Tail(rs), w,
                 IF i = 0
                 THEN Append(votes, [direction |-> response.direction, score |-> add])
                 ELSE [votes EXCEPT ![i].score = @ + add])

\* max(votes.items(), key=score): the first maximal item in iteration order.
max_vote(votes) ==
    LET best == CHOOSE i \in 1..Len(votes) :
                    /\ \A j \in 1..Len(votes) : votes[j].score <= votes[i].score
                    /\ \A j \in 1..(i - 1) : votes[j].score < votes[i].score
    IN  votes[best]

\* aggregate with the risk veto dropped from `approved`.
aggregate_without_veto(task_id, asset, rs, w, ra) ==
    LET votes == accumulate_votes(valid_responses(rs), w, << >>)
        top   == IF votes # << >> THEN max_vote(votes)
                 ELSE [direction |-> "abstain", score |-> 0]
        approved == top.direction \in {"buy", "sell"}
    IN  [task_id        |-> task_id,
         asset          |-> asset,
         direction      |-> top.direction,
         confidence     |-> [num |-> Min(top.score, VoteScale(w)), den |-> VoteScale(w)],
         approved       |-> approved,
         veto_reason    |-> IF approved THEN None ELSE ra.reason,
         position_size  |-> IF approved
                            THEN Min(default_position_size, ra.adjusted_size)
                            ELSE 0,
         weighted_votes |-> votes]

\* Coordinator.aggregate
aggregate(task_id, asset, rs, w, ra) ==
    LET votes == accumulate_votes(valid_responses(rs), w, << >>)
        top   == IF votes # << >> THEN max_vote(votes)
                 ELSE [direction |-> "abstain", score |-> 0]
        approved == ra.approved /\ top.direction \in {"buy", "sell"}
    IN  [task_id        |-> task_id,
         asset          |-> asset,
         direction      |-> top.direction,
         confidence     |-> [num |-> Min(top.score, VoteScale(w)), den |-> VoteScale(w)],
         approved       |-> approved,
         veto_reason    |-> IF approved THEN None ELSE ra.reason,
         position_size  |-> IF approved
                            THEN Min(default_position_size, ra.adjusted_size)
                            ELSE 0,
         weighted_votes |-> votes]

(***************************************************************************)
(* ExecutionAgent  (agents/execution_agent.py)                             *)
(*                                                                         *)
(* execute is a coroutine: it suspends in place_order (pc = "placing") and *)
(* in asyncio.sleep (pc = "sleeping").  `delay` is counted in units of     *)
(* initial_retry_delay_seconds.                                            *)
(***************************************************************************)
NoResult == [success |-> FALSE, order_id |-> None, reason |-> None]
NoRequest == [symbol |-> None, side |-> None, quantity |-> 0, order_type |-> None]

ExecIdle ==
    [pc |-> "idle", attempt |-> 0, delay |-> 0, place_calls |-> 0,
     sleeps |-> << >>, mgr_log |-> << >>, request |-> NoRequest, result |-> NoResult]

ExecutionResult(success, order_id, reason) ==
    [success |-> success, order_id |-> order_id, reason |-> reason]

Return(e, result) == [e EXCEPT !.pc = "done", !.result = result]

\* execute_enter with the paper branch routed to the order manager.
execute_enter_paper_routed(d, live, maxr) ==
    IF ~d.approved
    THEN Return(ExecIdle, ExecutionResult(FALSE, None, "Risk not approved."))
    ELSE IF d.direction \notin {"buy", "sell"}
    THEN Return(ExecIdle, ExecutionResult(FALSE, None, "No executable direction."))
    ELSE [ExecIdle EXCEPT !.pc = "placing", !.attempt = 1, !.delay = 1,
                          !.place_calls = 1,
                          !.request = [symbol |-> d.asset, side |-> d.direction,
                                       quantity |-> Max(d.position_size, 0),
                                       order_type |-> "market"]]

\* execute, from its entry to the first place_order call (lines 52-85).
execute_enter(d, live, maxr) ==
    IF ~d.approved
    THEN Return(ExecIdle, ExecutionResult(FALSE, None, "Risk not approved."))
    ELSE IF d.direction \notin {"buy", "sell"}
    THEN Return(ExecIdle, ExecutionResult(FALSE, None, "No executable direction."))
    ELSE IF live = FALSE
    THEN Return(ExecIdle,
                ExecutionResult(TRUE, "paper-" \o d.task_id, "Paper order simulated."))
    ELSE LET order_request ==
                 [symbol |-> d.asset, side |-> d.direction,
                  quantity |-> Max(d.position_size, 0), order_type |-> "market"]
         IN  IF maxr < 1     \* range(1, max_retries + 1) is empty
             THEN Return([ExecIdle EXCEPT !.request = order_request],
                         ExecutionResult(FALSE, None, "Exhausted retries."))
             ELSE [ExecIdle EXCEPT !.pc = "placing", !.attempt = 1, !.delay = 1,
                                   !.place_calls = 1, !.request = order_request]

\* after_attempt with the loop bound off by one.
after_attempt_one_more(e, maxr) ==
    IF e.attempt <= maxr
    THEN [e EXCEPT !.pc = "sleeping"]
    ELSE Return(e, ExecutionResult(FALSE, None, "Exhausted retries."))

\* The end of one loop iteration (lines 105-108).
after_attempt(e, maxr) ==
    IF e.attempt < maxr
    THEN [e EXCEPT !.pc = "sleeping"]
    ELSE Return(e, ExecutionResult(FALSE, None, "Exhausted retries."))

\* `except RuntimeError`: the exception classes the handler catches.
CaughtByExecute(exc) == exc \in {"RuntimeError"}

\* What execute does with the outcome of the awaited place_order (lines 86-104).
on_place_order(e, outcome, maxr) ==
    LET logged == [e EXCEPT !.mgr_log = Append(@, outcome)]
    IN  IF outcome.kind = "raise"
        THEN IF CaughtByExecute(outcome.exc)
             THEN after_attempt(logged, maxr)
             ELSE [logged EXCEPT !.pc = "raised"]
        ELSE IF outcome.accepted
        THEN Return(logged, ExecutionResult(TRUE, outcome.order_id, outcome.reason))
        ELSE IF ~outcome.retryable
        THEN Return(logged, ExecutionResult(FALSE, outcome.order_id, outcome.reason))
        ELSE after_attempt(logged, maxr)

\* on_sleep_done with the delay left as it is.
on_sleep_done_constant(e) ==
    [e EXCEPT !.pc = "placing", !.sleeps = Append(@, e.delay),
              !.attempt = @ + 1, !.place_calls = @ + 1]

\* asyncio.sleep(delay) returns: delay *= 2 and the next attempt's place_order.
on_sleep_done(e) ==
    [e EXCEPT !.pc = "placing", !.sleeps = Append(@, e.delay), !.delay = @ * 2,
              !.attempt = @ + 1, !.place_calls = @ + 1]

(***************************************************************************)
(* Inputs of the trading loop                                              *)
(***************************************************************************)
MaxResponses  == 2
MaxRetriesCfg == 3

Directions == <<"buy", "sell", "hold", "abstain">>
DirectionSet == {Directions[i] : i \in 1..Len(Directions)}
AgentIds == {"technical_agent", "research_agent"}
TaskIds  == {"task-1", "task-2"}

RawWeightMaps ==
    { << >>,
      [a \in AgentIds |-> 50],
      [a \in {"technical_agent"} |-> 1],
      [a \in AgentIds |-> IF a = "technical_agent" THEN 97 ELSE 3] }

RiskContexts ==
    [portfolio_value : {100000},
     proposed_position_value : {0, 1000, 5000},
     current_daily_drawdown_pct : {0, 600},
     sector_exposure_pct : {500, 2000},
     minutes_to_major_event : {60},
     instrument_history_days : {60}]

\* RiskAssessment values a caller can construct directly (schemas.py:58-63).
DirectAssessments ==
    [approved : BOOLEAN, reason : {"manual"}, adjusted_size : {50, 10000}]

AgentResponses ==
    [agent_id : AgentIds, status : {"success"}, direction : DirectionSet,
     confidence : {50, 60, 80}]
    \cup
    [agent_id : {"technical_agent"}, status : {"abstain", "error"}, direction : {"buy"},
     confidence : {80}]

RECURSIVE SeqsUpTo(_, _)
SeqsUpTo(S, n) ==
    IF n = 0 THEN {<< >>}
    ELSE LET shorter == SeqsUpTo(S, n - 1)
         IN  shorter \cup {Append(s, x) : s \in {t \in shorter : Len(t) = n - 1}, x \in S}

NoAssessment == [approved |-> FALSE, reason |-> None, adjusted_size |-> 0]
NoDecision ==
    [task_id |-> None, asset |-> None, direction |-> "abstain",
     confidence |-> [num |-> 0, den |-> 1], approved |-> FALSE,
     veto_reason |-> None, position_size |-> 0, weighted_votes |-> << >>]

\* TradeDecision values a caller can construct directly (schemas.py:77-87).
DirectDecisions ==
    {[NoDecision EXCEPT !.task_id = t, !.asset = "BTC/USD", !.direction = d,
                        !.approved = a, !.position_size = s] :
        t \in TaskIds, d \in DirectionSet, a \in BOOLEAN, s \in {0, 100}}

Response(accepted, retryable, order_id, reason) ==
    [kind |-> "response", accepted |-> accepted, retryable |-> retryable,
     order_id |-> order_id, reason |-> reason, exc |-> None]

Raise(exc) ==
    [kind |-> "raise", accepted |-> FALSE, retryable |-> FALSE,
     order_id |-> None, reason |-> None, exc |-> exc]

\* What an OrderManager.place_order can come back with.
ManagerOutcomes ==
    { Response(TRUE, FALSE, "kraken-1", "Order accepted by Kraken."),
      Response(TRUE, TRUE, "kraken-2", "ok"),
      Response(FALSE, FALSE, None, "invalid order"),
      Response(FALSE, TRUE, None, "temporary") }
    \cup {Raise(exc) : exc \in {"RuntimeError", "ConnectionError"}}

(***************************************************************************)
(* The trading loop as a state machine                                     *)
(***************************************************************************)
TradeIdle ==
    /\ weights = << >>
    /\ risk_assessment = NoAssessment
    /\ responses = << >>
    /\ decision = NoDecision
    /\ origin = "none"
    /\ live_trading = FALSE
    /\ max_retries = 0
    /\ exec = ExecIdle
    /\ phase = "off"

MarketIdle ==
    /\ now = 0
    /\ provider_state = << >>
    /\ fail_streak = << >>
    /\ call = << >>

DatasetIdle ==
    /\ holdout_lock = << >>
    /\ lock_writes = 0
    /\ rng_draws = 0
    /\ files = << >>
    /\ last_build = << >>

\* No component besides the trading loop, the market data client and the
\* dataset builder is constructed.
RiskIdle ==
    /\ risk_context = << >>
    /\ risk_result = << >>

EvaluatorIdle ==
    /\ eval_rng = 0
    /\ metrics_call = << >>

PromotionIdle ==
    /\ promotion_call = << >>
    /\ resolve_call = << >>

TrainerIdle ==
    /\ training_state = << >>
    /\ trainer_lock = None
    /\ callers = << >>
    /\ misuse = FALSE

KrakenIdle ==
    /\ kraken_client = FALSE
    /\ kraken_call = << >>

RegistryIdle ==
    /\ registry_file = << >>
    /\ registrars = << >>
    /\ registered = << >>
    /\ lookup = << >>

TasksIdle == tasks = << >>

UnitsIdle ==
    /\ RiskIdle /\ EvaluatorIdle /\ PromotionIdle /\ TrainerIdle /\ KrakenIdle
    /\ RegistryIdle /\ TasksIdle

\* Coordinator.__init__
InitTrade ==
    /\ weights \in {_normalize_weights(raw) : raw \in RawWeightMaps}
    /\ risk_assessment = NoAssessment
    /\ responses = << >>
    /\ decision = NoDecision
    /\ origin = "none"
    /\ live_trading = FALSE
    /\ max_retries = 0
    /\ exec = ExecIdle
    /\ phase = "assess"

\* Coordinator.update_weights
UpdateWeights ==
    /\ phase = "assess"
    /\ \E raw \in RawWeightMaps : weights' = _normalize_weights(raw)
    /\ UNCHANGED <<risk_assessment, responses, decision, origin, live_trading,
                   max_retries, exec, phase>>
    /\ UNCHANGED notTrade

\* RiskAgent.assess on the portfolio context of the task
Assess ==
    /\ phase = "assess"
    /\ \E context \in RiskContexts : risk_assessment' = assess(context)
    /\ phase' = "aggregate"
    /\ UNCHANGED <<weights, responses, decision, origin, live_trading, max_retries, exec>>
    /\ UNCHANGED notTrade

\* A caller hands aggregate a RiskAssessment it built itself
SupplyAssessment ==
    /\ phase = "assess"
    /\ \E ra \in DirectAssessments : risk_assessment' = ra
    /\ phase' = "aggregate"
    /\ UNCHANGED <<weights, responses, decision, origin, live_trading, max_retries, exec>>
    /\ UNCHANGED notTrade

\* Coordinator.aggregate
Aggregate ==
    /\ phase = "aggregate"
    /\ \E rs \in SeqsUpTo(AgentResponses, MaxResponses), t \in TaskIds :
          /\ responses' = rs
          /\ decision' = aggregate(t, "BTC/USD", rs, weights, risk_assessment)
    /\ origin' = "aggregate"
    /\ phase' = "decided"
    /\ UNCHANGED <<weights, risk_assessment, live_trading, max_retries, exec>>
    /\ UNCHANGED notTrade

\* A caller hands execute a TradeDecision it built itself
SubmitDecision ==
    /\ phase = "assess"
    /\ \E d \in DirectDecisions : decision' = d
    /\ origin' = "direct"
    /\ phase' = "decided"
    /\ UNCHANGED <<weights, risk_assessment, responses, live_trading, max_retries, exec>>
    /\ UNCHANGED notTrade

\* ExecutionAgent.__init__: the agent that will run the decision.  The
\* responses of the task end with the aggregation.
Handover ==
    /\ phase = "decided"
    /\ live_trading' \in BOOLEAN
    /\ max_retries' \in 0..MaxRetriesCfg
    /\ live_trading' = FALSE => max_retries' = MaxRetriesCfg
    /\ responses' = << >>
    /\ phase' = "execute"
    /\ UNCHANGED <<weights, risk_assessment, decision, origin, exec>>
    /\ UNCHANGED notTrade

\* ExecutionAgent.execute up to its first suspension or return
Execute ==
    /\ phase = "execute"
    /\ exec.pc = "idle"
    /\ exec' = execute_enter(decision, live_trading, max_retries)
    /\ UNCHANGED <<weights, risk_assessment, responses, decision, origin,
                   live_trading, max_retries, phase>>
    /\ UNCHANGED notTrade

\* The awaited order_manager.place_order completes
PlaceOrderReturns ==
    /\ phase = "execute"
    /\ exec.pc = "placing"
    /\ \E outcome \in ManagerOutcomes :
          exec' = on_place_order(exec, outcome, max_retries)
    /\ UNCHANGED <<weights, risk_assessment, responses, decision, origin,
                   live_trading, max_retries, phase>>
    /\ UNCHANGED notTrade

\* The awaited asyncio.sleep(delay) completes
SleepReturns ==
    /\ phase = "execute"
    /\ exec.pc = "sleeping"
    /\ exec' = on_sleep_done(exec)
    /\ UNCHANGED <<weights, risk_assessment, responses, decision, origin,
                   live_trading, max_retries, phase>>
    /\ UNCHANGED notTrade

NextTrade ==
    \/ UpdateWeights
    \/ Assess
    \/ SupplyAssessment
    \/ Aggregate
    \/ SubmitDecision
    \/ Handover
    \/ Execute
    \/ PlaceOrderReturns
    \/ SleepReturns

TradeInit == InitTrade /\ MarketIdle /\ DatasetIdle /\ UnitsIdle

SpecTrade == TradeInit /\ [][NextTrade]_vars

(***************************************************************************)
(* Properties of the trading loop                                          *)
(***************************************************************************)
Executable(d) == d.approved /\ d.direction \in {"buy", "sell"}

\* C1: every TradeDecision returned by Coordinator.aggregate satisfies
\* approved => direction in {buy, sell} and position_size > 0, and
\* ~approved => position_size = 0.
C1_DecisionInvariant ==
    origin = "aggregate" =>
        /\ decision.approved =>
              decision.direction \in {"buy", "sell"} /\ decision.position_size > 0
        /\ ~decision.approved => decision.position_size = 0

\* C2: the risk veto is absolute.  When the assessment handed to aggregate is
\* not approved, the decision is not approved, has position_size 0 and carries
\* the assessment's reason; execute on it returns a failure and never calls
\* place_order, in paper and in live mode.
C2_VetoAbsolute ==
    (origin = "aggregate" /\ ~risk_assessment.approved) =>
        /\ ~decision.approved
        /\ decision.position_size = 0
        /\ decision.veto_reason = risk_assessment.reason
        /\ exec.place_calls = 0
        /\ exec.pc \in {"idle", "done"}
        /\ exec.pc = "done" => ~exec.result.success

\* A vetoed task whose votes chose buy has been run by a live ExecutionAgent.
C2_Witness ==
    /\ origin = "aggregate"
    /\ ~risk_assessment.approved
    /\ decision.direction = "buy"
    /\ live_trading
    /\ max_retries > 0
    /\ exec.pc = "done"

\* C3: in paper mode (live_trading = FALSE) execute never calls place_order;
\* an approved buy/sell decision yields success with order_id paper-<task_id>,
\* every other decision yields a failure.
C3_PaperNeverPlaces ==
    (phase = "execute" /\ ~live_trading /\ exec.pc # "idle") =>
        /\ exec.pc = "done"
        /\ exec.place_calls = 0
        /\ exec.mgr_log = << >>
        /\ IF Executable(decision)
           THEN /\ exec.result.success
                /\ exec.result.order_id = "paper-" \o decision.task_id
           ELSE ~exec.result.success

\* An approved sell decision was executed in paper mode.
C3_Witness ==
    /\ phase = "execute"
    /\ ~live_trading
    /\ exec.pc = "done"
    /\ Executable(decision)
    /\ decision.direction = "sell"
    /\ decision.task_id = "task-2"
    /\ exec.result.success

OnlyResponses(log) == \A i \in 1..Len(log) : log[i].kind = "response"
RetryableRejection(o) == o.kind = "response" /\ ~o.accepted /\ o.retryable

\* C9: in live mode, for an approved buy/sell decision and a manager that
\* answers with OrderResponse values, execute calls place_order until the
\* first response that is accepted or non-retryable and never more than
\* max_retries times; success iff that response was accepted; a non-retryable
\* rejection ends the loop with the broker's reason; max_retries retryable
\* rejections end it with "Exhausted retries." after exactly max_retries calls.
C9_RetryLoop ==
    (phase = "execute" /\ live_trading /\ Executable(decision)
        /\ exec.pc # "idle" /\ OnlyResponses(exec.mgr_log)) =>
        LET n == Len(exec.mgr_log) IN
        /\ exec.place_calls <= max_retries
        /\ exec.place_calls = n + (IF exec.pc = "placing" THEN 1 ELSE 0)
        /\ \A i \in 1..(n - 1) : RetryableRejection(exec.mgr_log[i])
        /\ exec.pc \in {"placing", "sleeping"} =>
              /\ \A i \in 1..n : RetryableRejection(exec.mgr_log[i])
              /\ n < max_retries
        /\ exec.pc = "done" =>
              IF n > 0 /\ ~RetryableRejection(exec.mgr_log[n])
              THEN /\ exec.result.success = exec.mgr_log[n].accepted
                   /\ exec.result.reason = exec.mgr_log[n].reason
                   /\ exec.result.order_id = exec.mgr_log[n].order_id
              ELSE /\ n = max_retries
                   /\ ~exec.result.success
                   /\ exec.result.reason = "Exhausted retries."
        /\ exec.pc # "raised"

\* Three retryable rejections in a row exhausted max_retries = 3.
C9_Witness ==
    /\ phase = "execute"
    /\ live_trading
    /\ Executable(decision)
    /\ max_retries = 3
    /\ exec.pc = "done"
    /\ Len(exec.mgr_log) = 3
    /\ \A i \in 1..3 : RetryableRejection(exec.mgr_log[i])
    /\ exec.result.reason = "Exhausted retries."

(***************************************************************************)
(* MarketDataClient  (tools/market_data.py)                                *)
(*                                                                         *)
(* Time is in seconds, candle ages in minutes.  get_trade_inputs is a      *)
(* coroutine that suspends in each provider's fetch_ohlcv (pc = "await").  *)
(***************************************************************************)
max_provider_failures    == 3
circuit_cooldown_seconds == 120
intraday_max_age_minutes == 15
swing_max_age_days       == 1

NumProviders == 2
MaxTime      == 180
TickSeconds  == circuit_cooldown_seconds \div 2

NoTime == 0 - 1     \* circuit_open_until = None

\* The providers MarketDataClient.__init__ declares, in order.
DefaultProviders ==
    << [source_name |-> "alpaca",       supported_asset_classes |-> {"equity", "etf"}],
       [source_name |-> "yahoo_chart",  supported_asset_classes |-> {"equity", "etf", "crypto", "fx"}],
       [source_name |-> "ccxt_binance", supported_asset_classes |-> {"crypto"}],
       [source_name |-> "ccxt_kraken",  supported_asset_classes |-> {"crypto"}] >>

Providers == SubSeq(DefaultProviders, 1, Min(NumProviders, Len(DefaultProviders)))
SourceNames == {Providers[i].source_name : i \in 1..Len(Providers)}

_ProviderState(failures, circuit_open_until) ==
    [failures |-> failures, circuit_open_until |-> circuit_open_until]

\* DataFreshnessPolicy.max_age_for_timeframe, in minutes
max_age_for_timeframe(timeframe) ==
    IF timeframe \in {"1m", "5m", "15m", "1h", "4h"}
    THEN intraday_max_age_minutes
    ELSE swing_max_age_days * 24 * 60

\* DataFreshnessPolicy.is_stale; a snapshot carries the number of its candles
\* and the age of the latest one when is_stale is evaluated.
is_stale(snapshot, timeframe) ==
    IF snapshot.candles = 0 THEN TRUE
    ELSE snapshot.latest_age_minutes > max_age_for_timeframe(timeframe)

\* _is_circuit_open that keeps the circuit open at the instant it expires.
_is_circuit_open_inclusive(state, source_name, t) ==
    IF state[source_name].circuit_open_until = NoTime THEN FALSE
    ELSE t <= state[source_name].circuit_open_until

_is_circuit_open(state, source_name, t) ==
    IF state[source_name].circuit_open_until = NoTime THEN FALSE
    ELSE t < state[source_name].circuit_open_until

_register_success(state, source_name) ==
    [state EXCEPT ![source_name] = _ProviderState(0, NoTime)]

\* _register_failure that keeps counting after the circuit opens.
_register_failure_keep_count(state, source_name, t) ==
    LET previous == state[source_name]
        failures == previous.failures + 1
    IN  IF failures >= max_provider_failures
        THEN [state EXCEPT ![source_name] =
                 _ProviderState(failures, t + circuit_cooldown_seconds)]
        ELSE [state EXCEPT ![source_name] =
                 _ProviderState(failures, previous.circuit_open_until)]

_register_failure(state, source_name, t) ==
    LET previous == state[source_name]
        failures == previous.failures + 1
    IN  IF failures >= max_provider_failures
        THEN [state EXCEPT ![source_name] =
                 _ProviderState(0, t + circuit_cooldown_seconds)]
        ELSE [state EXCEPT ![source_name] =
                 _ProviderState(failures, previous.circuit_open_until)]

Snapshot(source, candles, latest_age_minutes) ==
    [kind |-> "snapshot", source |-> source, candles |-> candles,
     latest_age_minutes |-> latest_age_minutes, reason |-> None]

FetchError(kind, reason) ==
    [kind |-> kind, source |-> None, candles |-> 0, latest_age_minutes |-> 0,
     reason |-> reason]

\* What the awaited fetch_ohlcv of provider `source` can come back with:
\* a snapshot, a DataSourceError (retryable or not) or the wait_for timeout.
FetchOutcomes(source) ==
    { Snapshot(source, 0, 0),
      Snapshot(source, 1, 1),
      Snapshot(source, 1, 20),
      Snapshot(source, 1, 3 * 24 * 60) }
    \cup
    { FetchError("DataSourceError", "downstream timeout"),
      FetchError("DataSourceErrorTerminal", "credentials are missing"),
      FetchError("TimeoutError", "") }

NoSnapshot == Snapshot(None, 0, 0)

CallIdle ==
    [pc |-> "idle", asset_class |-> None, timeframe |-> None, min_sources |-> 0,
     providers |-> << >>, idx |-> 0, successful |-> << >>, failures |-> << >>,
     fetched |-> << >>, log |-> << >>, error |-> None, primary |-> NoSnapshot, secondary |-> << >>]

\* get_trade_inputs, lines 350-355: the candidate providers
get_trade_inputs_enter(asset_class, timeframe, min_sources) ==
    LET providers == SelectSeq(Providers,
                        LAMBDA provider : asset_class \in provider.supported_asset_classes)
        entered == [CallIdle EXCEPT !.asset_class = asset_class,
                                    !.timeframe = timeframe,
                                    !.min_sources = min_sources]
    IN  IF providers = << >>
        THEN [entered EXCEPT !.pc = "raised", !.error = "No providers configured"]
        ELSE [entered EXCEPT !.pc = "visit", !.idx = 1,
                             !.providers = [i \in 1..Len(providers) |->
                                               providers[i].source_name]]

\* The end of get_trade_inputs with the successes taken newest first.
get_trade_inputs_finish_reversed(c) ==
    IF Len(c.successful) < c.min_sources
    THEN [c EXCEPT !.pc = "raised",
                   !.error = "Unable to gather market data from enough sources"]
    ELSE IF c.successful = << >>
    THEN [c EXCEPT !.pc = "raised", !.error = "StatisticsError"]
    ELSE [c EXCEPT !.pc = "returned",
                   !.primary = c.successful[Len(c.successful)],
                   !.secondary = SubSeq(c.successful, 1, Len(c.successful) - 1)]

\* get_trade_inputs, lines 375-395: after the loop over the candidates
get_trade_inputs_finish(c) ==
    IF Len(c.successful) < c.min_sources
    THEN [c EXCEPT !.pc = "raised",
                   !.error = "Unable to gather market data from enough sources"]
    ELSE IF c.successful = << >>       \* fmean([]) raises StatisticsError
    THEN [c EXCEPT !.pc = "raised", !.error = "StatisticsError"]
    ELSE [c EXCEPT !.pc = "returned",
                   !.primary = c.successful[1],
                   !.secondary = Tail(c.successful)]

\* One turn of the loop up to its await (lines 356-364): skip the provider
\* when its circuit is open, else call its fetch_ohlcv.
loop_visit(c, state, t) ==
    LET source == c.providers[c.idx] IN
    IF _is_circuit_open(state, source, t)
    THEN [c EXCEPT !.failures = Append(@, <<source, "circuit_open">>), !.idx = @ + 1]
    ELSE [c EXCEPT !.fetched = Append(@, source), !.pc = "await"]

\* The try block goes through: a snapshot came back and it is not stale.
fetch_succeeds(c, outcome) ==
    outcome.kind = "snapshot" /\ ~is_stale(outcome, c.timeframe)

\* The locals of the call after the awaited fetch_ohlcv (lines 365-373)
loop_resume(c, outcome) ==
    LET source == c.providers[c.idx] IN
    IF fetch_succeeds(c, outcome)
    THEN [c EXCEPT !.successful = Append(@, outcome),
                   !.log = Append(@, <<source, outcome>>),
                   !.idx = @ + 1, !.pc = "visit"]
    ELSE [c EXCEPT !.failures = Append(@,
                       <<source, IF outcome.kind = "snapshot"
                                 THEN "snapshot is stale"
                                 ELSE outcome.reason>>),
                   !.log = Append(@, <<source, outcome>>),
                   !.idx = @ + 1, !.pc = "visit"]

(***************************************************************************)
(* The market data client as a state machine                               *)
(***************************************************************************)
\* MarketDataClient.__init__
InitMarket ==
    /\ now = 0
    /\ provider_state = [name \in SourceNames |-> _ProviderState(0, NoTime)]
    /\ fail_streak = [name \in SourceNames |-> 0]
    /\ call = CallIdle

\* get_trade_inputs is called
StartCall ==
    /\ call.pc = "idle"
    /\ \E asset_class \in {"equity", "crypto", "other"},
          timeframe \in {"1h", "1d"},
          min_sources \in {0, 1, 2} :
          call' = get_trade_inputs_enter(asset_class, timeframe, min_sources)
    /\ UNCHANGED <<now, provider_state, fail_streak>>
    /\ UNCHANGED notMarket

\* One turn of the loop up to its await (lines 356-364): skip the provider
\* when its circuit is open, else call its fetch_ohlcv.
Visit ==
    /\ call.pc = "visit"
    /\ call.idx <= Len(call.providers)
    /\ call' = loop_visit(call, provider_state, now)
    /\ UNCHANGED <<now, provider_state, fail_streak>>
    /\ UNCHANGED notMarket

\* The awaited fetch_ohlcv completes (lines 365-373).
FetchReturns ==
    /\ call.pc = "await"
    /\ LET source == call.providers[call.idx] IN
       \E outcome \in FetchOutcomes(source) :
          /\ call' = loop_resume(call, outcome)
          /\ IF fetch_succeeds(call, outcome)
             THEN /\ provider_state' = _register_success(provider_state, source)
                  /\ fail_streak' = [fail_streak EXCEPT ![source] = 0]
             ELSE /\ provider_state' = _register_failure(provider_state, source, now)
                  /\ fail_streak' = [fail_streak EXCEPT ![source] = @ + 1]
    /\ UNCHANGED now
    /\ UNCHANGED notMarket

\* Every candidate was visited (lines 375-395).
Finish ==
    /\ call.pc = "visit"
    /\ call.idx > Len(call.providers)
    /\ call' = get_trade_inputs_finish(call)
    /\ UNCHANGED <<now, provider_state, fail_streak>>
    /\ UNCHANGED notMarket

\* The caller has the bundle or the error; the client is ready for the next call.
CallEnds ==
    /\ call.pc \in {"returned", "raised"}
    /\ call' = CallIdle
    /\ UNCHANGED <<now, provider_state, fail_streak>>
    /\ UNCHANGED notMarket

\* Time passes, between calls or while a fetch is awaited.
Tick ==
    /\ call.pc \in {"idle", "await"}
    /\ now < MaxTime
    /\ now' = now + TickSeconds
    /\ UNCHANGED <<provider_state, fail_streak, call>>
    /\ UNCHANGED notMarket

NextMarket ==
    \/ StartCall
    \/ Visit
    \/ FetchReturns
    \/ Finish
    \/ CallEnds
    \/ Tick

MarketInit == TradeIdle /\ InitMarket /\ DatasetIdle /\ UnitsIdle

SpecMarket == MarketInit /\ [][NextMarket]_vars

(***************************************************************************)
(* Properties of the market data client                                    *)
(***************************************************************************)
SkippedAsOpen(c, source) ==
    \E i \in 1..Len(c.failures) : c.failures[i] = <<source, "circuit_open">>

FetchedIn(c, source) ==
    \E i \in 1..Len(c.fetched) : c.fetched[i] = source

\* The provider the loop of the call in progress is at.
AtProvider(source) ==
    /\ call.pc \in {"visit", "await"}
    /\ call.idx <= Len(call.providers)
    /\ call.providers[call.idx] = source

\* C4: the circuit breaker.  With `now` read when the loop reaches the
\* provider: a provider that has failed max_provider_failures times with no
\* fresh snapshot in between has a circuit_open_until, set at the failure
\* that completed the run of max_provider_failures to that instant plus
\* circuit_cooldown_seconds; while now < circuit_open_until a call that
\* reaches the provider does not invoke its fetch_ohlcv and records
\* circuit_open for it; at or after circuit_open_until the call invokes it
\* again; and a fresh snapshot resets the provider to 0 failures and no
\* circuit_open_until.
C4_CircuitBreaker ==
    [][ \A source \in SourceNames :
           LET before == provider_state[source]
               after  == provider_state'[source]
           IN
           /\ (fail_streak'[source] >= max_provider_failures)
                 <=> (after.circuit_open_until # NoTime)
           /\ (AtProvider(source) /\ call.pc = "visit") =>
                 IF fail_streak[source] >= max_provider_failures
                    /\ now < before.circuit_open_until
                 THEN /\ call'.fetched = call.fetched
                      /\ call'.failures =
                            Append(call.failures, <<source, "circuit_open">>)
                      /\ call'.pc = "visit"
                 ELSE /\ call'.fetched = Append(call.fetched, source)
                      /\ call'.failures = call.failures
           /\ (AtProvider(source) /\ call.pc = "await" /\ call'.pc = "visit") =>
                 IF Len(call'.successful) > Len(call.successful)
                 THEN /\ after = _ProviderState(0, NoTime)
                      /\ fail_streak'[source] = 0
                 ELSE /\ fail_streak'[source] = fail_streak[source] + 1
                      /\ IF fail_streak'[source] % max_provider_failures = 0
                         THEN after = _ProviderState(0, now + circuit_cooldown_seconds)
                         ELSE after = _ProviderState(before.failures + 1,
                                                     before.circuit_open_until)
      ]_vars

\* One call skips a provider whose circuit is open and, for another provider
\* whose cooldown is over, is inside that provider's fetch_ohlcv again.
C4_Witness ==
    /\ call.pc = "await"
    /\ \E source \in SourceNames :
          /\ AtProvider(source)
          /\ fail_streak[source] >= max_provider_failures
          /\ now >= provider_state[source].circuit_open_until
    /\ \E other \in SourceNames :
          /\ SkippedAsOpen(call, other)
          /\ ~FetchedIn(call, other)
          /\ now < provider_state[other].circuit_open_until

DeclaredIndex(source) ==
    CHOOSE i \in 1..Len(Providers) : Providers[i].source_name = source

\* The declared positions of the providers that support the call's asset
\* class, were not skipped for an open circuit and delivered a fresh snapshot.
FreshProviders(c) ==
    { i \in 1..Len(Providers) :
         /\ c.asset_class \in Providers[i].supported_asset_classes
         /\ ~SkippedAsOpen(c, Providers[i].source_name)
         /\ \E j \in 1..Len(c.log) :
               /\ c.log[j][1] = Providers[i].source_name
               /\ c.log[j][2].kind = "snapshot"
               /\ ~is_stale(c.log[j][2], c.timeframe) }

SnapshotOf(c, i) ==
    LET j == CHOOSE k \in 1..Len(c.log) : c.log[k][1] = Providers[i].source_name
    IN  c.log[j][2]

\* C10: a returned bundle has as primary the fresh snapshot of the earliest
\* declared provider that supports the asset class and was not circuit-open,
\* as secondary the other fresh snapshots in declared order, nothing from a
\* failing, timed-out, stale or skipped provider; and a call with fewer than
\* min_sources successes has raised instead of returning.
C10_BundleOrder ==
    /\ call.pc = "returned" =>
          LET good   == FreshProviders(call)
              bundle == <<call.primary>> \o call.secondary
          IN  /\ good # {}
              /\ Len(bundle) = Cardinality(good)
              /\ Cardinality(good) >= call.min_sources
              /\ \A k \in 1..Len(bundle) :
                    /\ DeclaredIndex(bundle[k].source) \in good
                    /\ bundle[k] = SnapshotOf(call, DeclaredIndex(bundle[k].source))
                    /\ \A m \in 1..Len(bundle) :
                          k < m => DeclaredIndex(bundle[k].source)
                                      < DeclaredIndex(bundle[m].source)
    /\ (call.pc \in {"returned", "raised"}
        /\ Cardinality(FreshProviders(call)) < call.min_sources)
          => call.pc = "raised"

\* A bundle is returned whose primary is not the first candidate, which
\* delivered a stale snapshot.
C10_Witness ==
    /\ call.pc = "returned"
    /\ Len(call.providers) > 1
    /\ call.primary.source # call.providers[1]
    /\ \E i \in 1..Len(call.failures) :
          call.failures[i] = <<call.providers[1], "snapshot is stale">>

(***************************************************************************)
(* DatasetBuilder  (training/dataset_builder.py)                           *)
(*                                                                         *)
(* A decision log record is identified by its id; ids are numbered in      *)
(* timestamp order.  All records share one asset class and one timeframe,  *)
(* so the pairing context of a record is its market regime.  Ratios are    *)
(* in percent.                                                             *)
(***************************************************************************)
REGIMES == <<"trending_bull", "trending_bear", "mean_reverting", "high_volatility">>

replay_ratio     == 30
min_regime_ratio == 20
seed             == 7

min_outcome_records == 4     \* DatasetBuilderConfig.min_outcome_records of the builder
MaxRecords          == 5     \* size of the decision log
MaxDraws            == 12    \* values one builder instance draws from its rng

DatasetVersions == {"v1", "v2"}

\* The decision log: record i was taken in regime REGIMES[i mod 4]; the
\* first round of four was profitable, the next lost, and so on.
market_regime(id) == REGIMES[((id - 1) % 4) + 1]
trade_was_profitable(id) == ((id - 1) \div 4) % 2 = 0
timestamp(id) == id

RecordIds == 1..MaxRecords

\* The values of successive random() calls on random.Random(s), each as
\* floor(value * RandomScale); tabulated for the configured seed.
RandomScale == 1000000
Random(s) ==
    IF s # 7 THEN << >> ELSE
    << 323832, 150849, 650934,  72436, 535882, 365688,  57998, 507435,
        37495, 433645,  69855,  90713, 424519, 826852, 123801, 223238,
       627433, 947708, 577102, 396680, 976255,  46582, 858468, 289609,
       144255, 117792, 308481, 816126, 180726, 581600, 638913, 372397,
       547744,  62788,  59601, 205958, 680399, 427592, 314147, 585561 >>

\* self._rng = Random(self._config.seed)
RandomStream == Random(seed)

\* the value of the (draws + 1)-th call of self._rng.random()
random(draws) ==
    IF draws + 1 <= Len(RandomStream) THEN RandomStream[draws + 1] ELSE 0

\* sorted(records, key = timestamp) of a set of records
RECURSIVE SortedSeq(_)
SortedSeq(ids) ==
    IF ids = {} THEN << >>
    ELSE LET first == CHOOSE a \in ids : \A b \in ids : timestamp(a) <= timestamp(b)
         IN  <<first>> \o SortedSeq(ids \ {first})

\* math.ceil(numerator / denominator) for non-negative integers
CeilDiv(numerator, denominator) == (numerator + denominator - 1) \div denominator

\* Random.choices(ordered, weights, k=1) with weights 1 + index/max(1, n-1):
\* the position (from 1) of the first cumulative weight above r * total,
\* the last position at most.  Weights are scaled by 2 * max(1, n-1).
choices(n, r) ==
    LET d     == Max(1, n - 1)
        cum(i) == 2 * (i + 1) * d + i * (i + 1)       \* i = 0 .. n-1
        total == cum(n - 1)
        hits  == {i \in 0..(n - 1) : r * total < cum(i) * RandomScale}
    IN  IF hits = {} THEN n
        ELSE 1 + (CHOOSE i \in hits : \A k \in hits : i <= k)

\* _sample_with_recency_weight: `ordered` is already in timestamp order.
\* Gives the samples and the rng position afterwards.
RECURSIVE _sample_with_recency_weight(_, _, _)
_sample_with_recency_weight(ordered, count, draws) ==
    IF count <= 0 THEN [samples |-> << >>, draws |-> draws]
    ELSE LET picked == ordered[choices(Len(ordered), random(draws))]
             rest   == _sample_with_recency_weight(ordered, count - 1, draws + 1)
         IN  [samples |-> <<picked>> \o rest.samples, draws |-> rest.draws]

SelectedRecord(record, is_replay) == [record |-> record, is_replay |-> is_replay]

_regime_counts(selected, regime) ==
    Cardinality({i \in 1..Len(selected) : market_regime(selected[i].record) = regime})

_regimes_meet_floor(selected) ==
    IF selected = << >> THEN FALSE
    ELSE \A r \in 1..Len(REGIMES) :
            _regime_counts(selected, REGIMES[r])
               >= CeilDiv(Len(selected) * min_regime_ratio, 100)

\* One pass of the `for regime in REGIMES` loop inside the while loop,
\* from the regime at position r on.
RECURSIVE balance_pass(_, _, _, _)
balance_pass(selected, pool, draws, r) ==
    IF r > Len(REGIMES) THEN [selected |-> selected, draws |-> draws]
    ELSE LET regime    == REGIMES[r]
             min_count == CeilDiv(Len(selected) * min_regime_ratio, 100)
         IN  IF _regime_counts(selected, regime) >= min_count
             THEN balance_pass(selected, pool, draws, r + 1)
             ELSE LET by_regime == SelectSeq(pool, LAMBDA id : market_regime(id) = regime)
                      sample    == _sample_with_recency_weight(by_regime, 1, draws)
                  IN  balance_pass(
                          Append(selected, SelectedRecord(sample.samples[1], FALSE)),
                          pool, sample.draws, r + 1)

RECURSIVE balance_loop(_, _, _, _, _)
balance_loop(selected, pool, draws, iterations, max_iterations) ==
    IF ~_regimes_meet_floor(selected) /\ iterations < max_iterations
    THEN LET pass == balance_pass(selected, pool, draws, 1)
         IN  balance_loop(pass.selected, pool, pass.draws, iterations + 1, max_iterations)
    ELSE [selected |-> selected, draws |-> draws]

\* _balance_regimes: error is None or the message of the ValueError raised
_balance_regimes(base_records, historical_pool, draws) ==
    LET selected == [i \in 1..Len(base_records) |-> SelectedRecord(base_records[i], FALSE)]
        missing  == {r \in 1..Len(REGIMES) :
                        \A i \in 1..Len(historical_pool) :
                           market_regime(historical_pool[i]) # REGIMES[r]}
    IN  IF missing # {}
        THEN [error |-> "No historical records available for regime",
              selected |-> << >>, draws |-> draws]
        ELSE LET done == balance_loop(selected, historical_pool, draws, 0,
                                      Len(base_records) * 8)
             IN  IF ~_regimes_meet_floor(done.selected)
                 THEN [error |-> "Unable to satisfy minimum regime distribution constraints.",
                       selected |-> << >>, draws |-> done.draws]
                 ELSE [error |-> None, selected |-> done.selected, draws |-> done.draws]

\* math.ceil((replay_ratio * base_count) / (1.0 - replay_ratio)) in binary
\* floating point: for these base counts the quotient of the exact integer
\* 3 * base_count / 7 comes out just above it.
FloatExcess == {7, 14, 28, 35}

min_replay(base_count) ==
    CeilDiv(replay_ratio * base_count, 100 - replay_ratio)
       + (IF base_count \in FloatExcess THEN 1 ELSE 0)

_inject_replay_buffer(base_records, historical_pool, draws) ==
    LET sampled == _sample_with_recency_weight(historical_pool,
                                               min_replay(Len(base_records)), draws)
    IN  [selected |-> base_records \o
                         [i \in 1..Len(sampled.samples) |->
                             SelectedRecord(sampled.samples[i], TRUE)],
         draws |-> sampled.draws]

\* _record_to_pair: what a written row holds of the record and of the build
_record_to_pair(record, dataset_version, is_replay, unmatched_negative) ==
    [id |-> record, regime |-> market_regime(record), is_replay |-> is_replay,
     dataset_version |-> dataset_version, unmatched_negative |-> unmatched_negative]

\* pairs.sort(key = timestamp): a stable sort
RECURSIVE sort_by_timestamp(_)
sort_by_timestamp(pairs) ==
    IF pairs = << >> THEN << >>
    ELSE LET last   == pairs[Len(pairs)]
             sorted == sort_by_timestamp(SubSeq(pairs, 1, Len(pairs) - 1))
             before == SelectSeq(sorted, LAMBDA row : timestamp(row.id) <= timestamp(last.id))
             after  == SelectSeq(sorted, LAMBDA row : timestamp(row.id) > timestamp(last.id))
         IN  before \o <<last>> \o after

\* The loop of _build_pairs from position k on; `popped` are the negatives
\* already taken from the candidate lists.
RECURSIVE pair_loop(_, _, _, _, _)
pair_loop(selected_records, historical_pool, dataset_version, k, popped) ==
    IF k > Len(selected_records) THEN << >>
    ELSE LET selected   == selected_records[k]
             record     == selected.record
             candidates == SelectSeq(historical_pool,
                              LAMBDA id : /\ ~trade_was_profitable(id)
                                          /\ market_regime(id) = market_regime(record)
                                          /\ id \notin popped)
         IN  IF trade_was_profitable(record) /\ candidates # << >>
             THEN << _record_to_pair(candidates[1], dataset_version,
                                     selected.is_replay, FALSE),
                     _record_to_pair(record, dataset_version,
                                     selected.is_replay, FALSE) >>
                  \o pair_loop(selected_records, historical_pool, dataset_version,
                               k + 1, popped \cup {candidates[1]})
             ELSE << _record_to_pair(record, dataset_version, selected.is_replay,
                                     trade_was_profitable(record)) >>
                  \o pair_loop(selected_records, historical_pool, dataset_version,
                               k + 1, popped)

_build_pairs(selected_records, historical_pool, dataset_version) ==
    sort_by_timestamp(pair_loop(selected_records, historical_pool, dataset_version, 1, {}))

NotReplay(records) == [i \in 1..Len(records) |-> SelectedRecord(records[i], FALSE)]

\* int(count * 0.70), int(count * 0.85)
_initial_time_split(records) ==
    LET count          == Len(records)
        train_end      == (count * 70) \div 100
        validation_end == (count * 85) \div 100
    IN  [train      |-> SubSeq(records, 1, train_end),
         validation |-> SubSeq(records, train_end + 1, validation_end),
         test       |-> SubSeq(records, validation_end + 1, count)]

\* int(len(remainder) * (0.70 / 0.85))
_split_with_locked_holdout(records, test_ids) ==
    LET test_records == SelectSeq(records, LAMBDA id : id \in test_ids)
        remainder    == SelectSeq(records, LAMBDA id : id \notin test_ids)
        train_end    == (Len(remainder) * 70) \div 85
    IN  [train      |-> SubSeq(remainder, 1, train_end),
         validation |-> SubSeq(remainder, train_end + 1, Len(remainder)),
         test       |-> test_records]

NoLock == [exists |-> FALSE, test_ids |-> << >>]

\* _persist_holdout_lock
_persist_holdout_lock(test_records) == [exists |-> TRUE, test_ids |-> test_records]

\* build, lines 92-99, with the lock rewritten from a new split on every build.
holdout_split_rewriting(eligible, lock) ==
    LET split == _initial_time_split(eligible)
    IN  [split |-> split, lock |-> _persist_holdout_lock(split.test), wrote |-> TRUE]

\* build, lines 92-99: the split, and the lock file afterwards
holdout_split(eligible, lock) ==
    IF lock.exists
    THEN [split |-> _split_with_locked_holdout(eligible,
                        {lock.test_ids[i] : i \in 1..Len(lock.test_ids)}),
          lock |-> lock, wrote |-> FALSE]
    ELSE LET split == _initial_time_split(eligible)
         IN  [split |-> split, lock |-> _persist_holdout_lock(split.test), wrote |-> TRUE]

NoFiles == [written |-> FALSE, train |-> << >>, validation |-> << >>, test |-> << >>]

\* DatasetBuilder.build on the records of the log whose outcome is labelled,
\* with the lock file as found and the rng at position draws.  error is None
\* or the ValueError raised; lock, wrote and draws are the lock file, whether
\* it was written and the rng position when build returns or raises.
build(labelled, dataset_version, lock, draws) ==
    LET eligible == SortedSeq(labelled) IN
    IF Len(eligible) < min_outcome_records
    THEN [error |-> "Insufficient outcome-labeled records for training",
          lock |-> lock, wrote |-> FALSE, draws |-> draws, files |-> NoFiles]
    ELSE
    LET held     == holdout_split(eligible, lock)
        balanced == _balance_regimes(held.split.train, eligible, draws)
    IN  IF balanced.error # None
        THEN [error |-> balanced.error, lock |-> held.lock, wrote |-> held.wrote,
              draws |-> balanced.draws, files |-> NoFiles]
        ELSE
        LET replay == _inject_replay_buffer(balanced.selected, eligible, balanced.draws)
        IN  [error |-> None, lock |-> held.lock, wrote |-> held.wrote,
             draws |-> replay.draws,
             files |->
                [written    |-> TRUE,
                 train      |-> _build_pairs(replay.selected, eligible, dataset_version),
                 validation |-> _build_pairs(NotReplay(held.split.validation),
                                             held.split.validation, dataset_version),
                 test       |-> _build_pairs(NotReplay(held.split.test),
                                             held.split.test, dataset_version)]]

(***************************************************************************)
(* The dataset builder as a state machine: one output directory, builder   *)
(* instances constructed on it one after the other.                        *)
(***************************************************************************)
NoBuild ==
    [records |-> {}, dataset_version |-> None, lock_before |-> NoLock,
     draws_before |-> 0, error |-> "no build"]

\* The record lists handed to build, by the records in them whose outcome
\* is labelled: every sufficient set, and one that is one record short.
LabelledSets ==
    {labelled \in SUBSET RecordIds : Cardinality(labelled) >= min_outcome_records}
       \cup {1..(min_outcome_records - 1)}

\* An empty output directory and DatasetBuilder.__init__
InitDataset ==
    /\ holdout_lock = NoLock
    /\ lock_writes = 0
    /\ rng_draws = 0
    /\ files = NoFiles
    /\ last_build = NoBuild

\* DatasetBuilder.__init__ on the same output directory: self._rng = Random(seed)
NewBuilder ==
    /\ rng_draws' = 0
    /\ UNCHANGED <<holdout_lock, lock_writes, files, last_build>>
    /\ UNCHANGED notDataset

\* DatasetBuilder.build on the current instance
Build ==
    \E labelled \in LabelledSets, dataset_version \in DatasetVersions :
    \E built \in {build(labelled, dataset_version, holdout_lock, rng_draws)} :
       /\ built.draws <= MaxDraws
       /\ holdout_lock' = built.lock
       /\ lock_writes' = lock_writes + (IF built.wrote THEN 1 ELSE 0)
       /\ rng_draws' = built.draws
       /\ files' = IF built.error = None THEN built.files ELSE files
       /\ last_build' = [records |-> labelled, dataset_version |-> dataset_version,
                         lock_before |-> holdout_lock, draws_before |-> rng_draws,
                         error |-> built.error]
       /\ UNCHANGED notDataset

NextDataset ==
    \/ NewBuilder
    \/ Build

DatasetInit == TradeIdle /\ MarketIdle /\ InitDataset /\ UnitsIdle

SpecDataset == DatasetInit /\ [][NextDataset]_vars

(***************************************************************************)
(* Properties of the dataset builder                                       *)
(***************************************************************************)
\* C5: once holdout_lock.json has been written, no later build changes its
\* test_ids or writes it again, whatever records and dataset_version the
\* build is given.
C5_LockNeverRewritten ==
    [][ /\ holdout_lock.exists =>
              /\ holdout_lock' = holdout_lock
              /\ lock_writes' = lock_writes
        /\ lock_writes' <= 1
      ]_vars

\* A build succeeded on a lock ending in record 4 with a record list whose
\* own latest record is 5.
C5_Witness ==
    /\ lock_writes = 1
    /\ holdout_lock.test_ids = <<4>>
    /\ last_build.lock_before = holdout_lock
    /\ last_build.error = None
    /\ 5 \in last_build.records

\* C6: a build given the same records, the same dataset_version and the same
\* lock contents as the successful build before it writes the same train,
\* validation and test files.
C6_Deterministic ==
    [][ ( /\ last_build' # last_build
          /\ last_build.error = None
          /\ last_build'.error = None
          /\ last_build'.records = last_build.records
          /\ last_build'.dataset_version = last_build.dataset_version
          /\ last_build'.lock_before = last_build.lock_before )
        => files' = files
      ]_vars

ReplayRows(rows) == Cardinality({i \in 1..Len(rows) : rows[i].is_replay})

RegimeRows(rows, regime) == Cardinality({i \in 1..Len(rows) : rows[i].regime = regime})

\* C7: in a written train.jsonl the rows with is_replay = true are at least
\* replay_ratio of all its rows.
C7_ReplayShare ==
    files.written =>
       100 * ReplayRows(files.train) >= replay_ratio * Len(files.train)

\* C8: in a written train.jsonl every regime of the eligible pool (a build
\* that writes has all of REGIMES in its pool) has at least min_regime_ratio
\* of all its rows.
C8_RegimeFloor ==
    files.written =>
       \A r \in 1..Len(REGIMES) :
          100 * RegimeRows(files.train, REGIMES[r]) >= min_regime_ratio * Len(files.train)

(***************************************************************************)
(* C28  After a successful build the test partition is disjoint from the   *)
(* training and validation data: no record whose id is in                  *)
(* holdout_lock.test_ids is a row of train.jsonl or validation.jsonl, be   *)
(* it a base record, a regime-balancing draw, a replay row or a paired     *)
(* negative.                                                               *)
(***************************************************************************)
LockedTestIds == {holdout_lock.test_ids[i] : i \in 1..Len(holdout_lock.test_ids)}

RowIds(rows) == {rows[i].id : i \in 1..Len(rows)}

C28_TestDisjointFromTraining ==
    (files.written /\ last_build.error = None) =>
        /\ RowIds(files.train) \cap LockedTestIds = {}
        /\ RowIds(files.validation) \cap LockedTestIds = {}

(***************************************************************************)
(* C29  A build that raises a pipeline-fatal error (too few eligible       *)
(* records, a regime with no record in the pool, a regime floor that       *)
(* cannot be met) writes no train, validation or test file and neither     *)
(* creates nor changes holdout_lock.json.                                  *)
(***************************************************************************)
C29_FatalBuildWritesNothing ==
    [][(last_build' # last_build /\ last_build'.error # None) =>
          /\ files' = files
          /\ holdout_lock' = holdout_lock
          /\ lock_writes' = lock_writes]_vars

(***************************************************************************)
(* RiskAgent.assess on its own, over the contexts RiskContext admits       *)
(* (portfolio_value > 0, the other amounts >= 0, any minutes).             *)
(***************************************************************************)
RiskContextDomain ==
    [portfolio_value : {50000, 100000},
     proposed_position_value : {0, 1000, 2000, 2001, 5000},
     current_daily_drawdown_pct : {0, 499, 500, 600},
     sector_exposure_pct : {0, 1000, 1001},
     minutes_to_major_event : {0 - 6, 0 - 5, 0, 5, 6},
     instrument_history_days : {0, 29, 30}]

NoContext ==
    [portfolio_value |-> 0, proposed_position_value |-> 0,
     current_daily_drawdown_pct |-> 0, sector_exposure_pct |-> 0,
     minutes_to_major_event |-> 0, instrument_history_days |-> 0]

\* RiskAgent.__init__: nothing assessed yet
InitRisk ==
    /\ risk_context = NoContext
    /\ risk_result = NoAssessment

\* RiskAgent.assess(context)
AssessContext ==
    /\ \E context \in RiskContextDomain :
          /\ risk_context' = context
          /\ risk_result' = assess(context)
    /\ UNCHANGED notRisk

NextRisk ==
    \/ AssessContext

RiskInit ==
    /\ TradeIdle /\ MarketIdle /\ DatasetIdle
    /\ InitRisk
    /\ EvaluatorIdle /\ PromotionIdle /\ TrainerIdle /\ KrakenIdle
    /\ RegistryIdle /\ TasksIdle

SpecRisk == RiskInit /\ [][NextRisk]_vars

\* The veto conditions in their stated order, and their reasons.
VetoCondition(c, i) ==
    CASE i = 1 -> c.current_daily_drawdown_pct >= max_daily_drawdown_pct
      [] i = 2 -> Abs(c.minutes_to_major_event) <= no_trade_event_window_minutes
      [] i = 3 -> c.instrument_history_days < min_history_days
      [] i = 4 -> c.sector_exposure_pct > max_correlated_exposure_pct

VetoReason(i) ==
    CASE i = 1 -> "Daily drawdown breach: trading halted."
      [] i = 2 -> "Within major economic event no-trade window."
      [] i = 3 -> "Instrument has fewer than 30 days of history."
      [] i = 4 -> "Sector correlated exposure exceeds 10%."

\* C11: assess returns the fixed-order rule: with a veto condition, a
\* rejection with adjusted_size 0 and the reason of the first condition that
\* holds; with none, an approval whose adjusted_size is max_position_pct when
\* the proposed value is above portfolio_value * max_position_pct and
\* proposed/portfolio otherwise, so never above max_position_pct.
C11_FixedOrderRule ==
    risk_context.portfolio_value > 0 =>
       LET c == risk_context
           triggered == {i \in 1..4 : VetoCondition(c, i)}
       IN  IF triggered # {}
           THEN LET first == CHOOSE i \in triggered : \A k \in triggered : i <= k
                IN  /\ risk_result.approved = FALSE
                    /\ risk_result.adjusted_size = 0
                    /\ risk_result.reason = VetoReason(first)
           ELSE /\ risk_result.approved = TRUE
                /\ risk_result.adjusted_size <= max_position_pct
                /\ IF c.proposed_position_value * 10000
                         > c.portfolio_value * max_position_pct
                   THEN risk_result.adjusted_size = max_position_pct
                   ELSE risk_result.adjusted_size * c.portfolio_value
                           = c.proposed_position_value * 10000

\* A context in a drawdown breach and over the sector limit at once was
\* rejected for the drawdown.
C11_Witness ==
    /\ risk_context.portfolio_value > 0
    /\ VetoCondition(risk_context, 1)
    /\ VetoCondition(risk_context, 4)
    /\ risk_context.proposed_position_value > 0
    /\ risk_result = _reject(VetoReason(1), 0)

(***************************************************************************)
(* The promotion gate: Evaluator.evaluate_promotion (training/evaluator.py)*)
(* followed by Promoter.resolve (training/promoter.py).                    *)
(*                                                                         *)
(* Metrics and rates are in basis points (0.02 = 200).  A dataset version  *)
(* is the sequence of its characters.                                      *)
(***************************************************************************)
RegimeSet == {REGIMES[i] : i \in 1..Len(REGIMES)}

DigitChars == <<"0", "1", "2", "3", "4", "5", "6", "7", "8", "9">>

IsDigit(ch) == \E d \in 1..Len(DigitChars) : DigitChars[d] = ch

DigitValue(ch) == (CHOOSE d \in 1..Len(DigitChars) : DigitChars[d] = ch) - 1

\* int() of a non-empty sequence of digit characters
RECURSIVE int(_)
int(digits) ==
    IF digits = << >> THEN 0
    ELSE 10 * int(SubSeq(digits, 1, Len(digits) - 1)) + DigitValue(digits[Len(digits)])

\* re.search(r"(\d+)", value): the first maximal run of digits, or none
_extract_numeric_version(value) ==
    LET starts == {i \in 1..Len(value) : IsDigit(value[i])}
    IN  IF starts = {} THEN 0 - 1
        ELSE LET first == CHOOSE i \in starts : \A k \in starts : i <= k
                 stops == {j \in first..Len(value) :
                              /\ \A k \in first..j : IsDigit(value[k])
                              /\ (j = Len(value) \/ ~IsDigit(value[j + 1]))}
                 last  == CHOOSE j \in stops : TRUE
             IN  int(SubSeq(value, first, last))

_is_newer_dataset(candidate, champion) ==
    _extract_numeric_version(candidate) > _extract_numeric_version(champion)

\* regime_accuracy.get(regime, 0.0)
get(regime_accuracy, regime) ==
    IF regime \in DOMAIN regime_accuracy THEN regime_accuracy[regime] ELSE 0

\* The `for regime in REGIMES` loop of evaluate_promotion, from position r on
RECURSIVE regime_failures(_, _, _)
regime_failures(champion, candidate, r) ==
    IF r > Len(REGIMES) THEN << >>
    ELSE (IF get(champion.regime_accuracy, REGIMES[r])
                - get(candidate.regime_accuracy, REGIMES[r]) > 500
          THEN << "Regime degradation exceeds 5% for " \o REGIMES[r] >>
          ELSE << >>)
         \o regime_failures(champion, candidate, r + 1)

PromotionDecision(failures) == [approved |-> failures = << >>, reasons |-> failures]

\* evaluate_promotion with the upper abstain bound exclusive.
evaluate_promotion_abstain_strict(champion, candidate, champion_dataset_version, candidate_dataset_version) ==
    PromotionDecision(
        (IF candidate.signal_accuracy - champion.signal_accuracy < 200
         THEN << "Signal accuracy improvement is below 2%." >> ELSE << >>)
        \o (IF candidate.brier_score > champion.brier_score
            THEN << "Brier score degraded versus champion." >> ELSE << >>)
        \o (IF ~(1500 <= candidate.abstain_rate /\ candidate.abstain_rate < 4000)
            THEN << "Candidate abstain rate is outside healthy 15%-40% range." >>
            ELSE << >>)
        \o regime_failures(champion, candidate, 1)
        \o (IF candidate.consistency_variance >= 500
            THEN << "Candidate consistency variance is not stable (<0.05 required)." >>
            ELSE << >>)
        \o (IF ~_is_newer_dataset(candidate_dataset_version, champion_dataset_version)
            THEN << "Candidate dataset_version must be newer than champion." >>
            ELSE << >>))

\* Evaluator.evaluate_promotion
evaluate_promotion(champion, candidate, champion_dataset_version, candidate_dataset_version) ==
    PromotionDecision(
        (IF candidate.signal_accuracy - champion.signal_accuracy < 200
         THEN << "Signal accuracy improvement is below 2%." >> ELSE << >>)
        \o (IF candidate.brier_score > champion.brier_score
            THEN << "Brier score degraded versus champion." >> ELSE << >>)
        \o (IF ~(1500 <= candidate.abstain_rate /\ candidate.abstain_rate <= 4000)
            THEN << "Candidate abstain rate is outside healthy 15%-40% range." >>
            ELSE << >>)
        \o regime_failures(champion, candidate, 1)
        \o (IF candidate.consistency_variance >= 500
            THEN << "Candidate consistency variance is not stable (<0.05 required)." >>
            ELSE << >>)
        \o (IF ~_is_newer_dataset(candidate_dataset_version, champion_dataset_version)
            THEN << "Candidate dataset_version must be newer than champion." >>
            ELSE << >>))

MIN_SHADOW_AGREEMENT     == 8500
retain_previous_for_days == 90

PromotionResult(promoted, reason, retain, reset_failure_streak) ==
    [promoted |-> promoted, reason |-> reason, retain_previous_for_days |-> retain,
     reset_failure_streak |-> reset_failure_streak]

\* resolve with the shadow check in front of the evaluation check.
resolve_shadow_first(evaluation_decision, shadow_result) ==
    IF shadow_result.agreement_rate < MIN_SHADOW_AGREEMENT
    THEN PromotionResult(FALSE, "Shadow agreement below 85%; human review required.",
                         retain_previous_for_days, FALSE)
    ELSE IF ~evaluation_decision.approved
    THEN PromotionResult(FALSE, "Evaluation gate rejected candidate.",
                         retain_previous_for_days, FALSE)
    ELSE PromotionResult(TRUE,
             "Candidate promoted to champion after successful shadow deployment.",
             retain_previous_for_days, TRUE)

\* Promoter.resolve
resolve(evaluation_decision, shadow_result) ==
    IF ~evaluation_decision.approved
    THEN PromotionResult(FALSE, "Evaluation gate rejected candidate.",
                         retain_previous_for_days, FALSE)
    ELSE IF shadow_result.agreement_rate < MIN_SHADOW_AGREEMENT
    THEN PromotionResult(FALSE, "Shadow agreement below 85%; human review required.",
                         retain_previous_for_days, FALSE)
    ELSE PromotionResult(TRUE,
             "Candidate promoted to champion after successful shadow deployment.",
             retain_previous_for_days, TRUE)

(***************************************************************************)
(* Inputs of the promotion gate.                                           *)
(***************************************************************************)
EvaluationMetrics(signal_accuracy, abstain_rate, brier_score, regime_accuracy, consistency_variance) ==
    [signal_accuracy |-> signal_accuracy, abstain_rate |-> abstain_rate,
     brier_score |-> brier_score, regime_accuracy |-> regime_accuracy,
     consistency_variance |-> consistency_variance]

\* regime_accuracy dictionaries; a dictionary may lack a regime
ChampionRegimeAccuracies ==
    { [r \in RegimeSet |-> 7000],
      [r \in RegimeSet \ {"trending_bull"} |-> 7000] }

CandidateRegimeAccuracies ==
    { [r \in RegimeSet |-> 7000],
      [r \in RegimeSet |-> IF r = "mean_reverting" THEN 6500 ELSE 7000],
      [r \in RegimeSet |-> IF r = "mean_reverting" THEN 6499 ELSE 7000],
      [r \in RegimeSet |-> IF r \in {"trending_bear", "high_volatility"}
                           THEN 6000 ELSE 7500],
      [r \in RegimeSet \ {"trending_bull"} |-> 7000] }

ChampionMetrics ==
    { EvaluationMetrics(7000, 2200, 2000, ra, 300) : ra \in ChampionRegimeAccuracies }

CandidateMetrics ==
    { EvaluationMetrics(sa, ar, bs, ra, cv) :
        sa \in {7000, 7199, 7200}, ar \in {1499, 1500, 4000, 4001},
        bs \in {1900, 2000, 2001}, ra \in CandidateRegimeAccuracies,
        cv \in {499, 500} }

PromotionVersions ==
    { <<"v", "9">>, <<"v", "1", "0">>, <<"v", "1", "1">>, <<"d", "e", "v">>,
      <<"r", "2", "-", "1", "5">>, <<"0", "0", "7">> }

ShadowDeploymentResults ==
    { [agreement_rate |-> a, total_samples |-> 100] : a \in {0, 8499, 8500, 10000} }

\* PromotionDecision values a caller of resolve can build by hand
DirectPromotionDecisions ==
    { [approved |-> a, reasons |-> rs] :
        a \in BOOLEAN, rs \in {<< >>, << "Brier score degraded versus champion." >>} }

NoPromotionDecision == [approved |-> FALSE, reasons |-> << "not evaluated" >>]

NoPromotionCall == [pc |-> "done"]

NoResolveCall == [pc |-> "idle"]

InitPromotion ==
    /\ \E champion \in ChampionMetrics, candidate \in CandidateMetrics,
          cv \in PromotionVersions, nv \in PromotionVersions :
          promotion_call = [pc |-> "called", champion |-> champion,
                            candidate |-> candidate,
                            champion_dataset_version |-> cv,
                            candidate_dataset_version |-> nv,
                            decision |-> NoPromotionDecision]
    /\ resolve_call = NoResolveCall

EvaluatePromotion ==
    /\ promotion_call.pc = "called"
    /\ promotion_call' =
          [promotion_call EXCEPT
              !.pc = "returned",
              !.decision = evaluate_promotion(promotion_call.champion,
                                              promotion_call.candidate,
                                              promotion_call.champion_dataset_version,
                                              promotion_call.candidate_dataset_version)]
    /\ UNCHANGED resolve_call
    /\ UNCHANGED notPromotion

\* resolve on the decision the evaluator returned
Resolve ==
    /\ promotion_call.pc = "returned"
    /\ \E shadow_result \in ShadowDeploymentResults :
          resolve_call' = [pc |-> "returned",
                           evaluation_decision |-> promotion_call.decision,
                           shadow_result |-> shadow_result,
                           result |-> resolve(promotion_call.decision, shadow_result)]
    /\ promotion_call' = NoPromotionCall
    /\ UNCHANGED notPromotion

\* resolve on a decision built by the caller
ResolveDirect ==
    /\ promotion_call.pc = "returned"
    /\ \E evaluation_decision \in DirectPromotionDecisions,
          shadow_result \in ShadowDeploymentResults :
          resolve_call' = [pc |-> "returned",
                           evaluation_decision |-> evaluation_decision,
                           shadow_result |-> shadow_result,
                           result |-> resolve(evaluation_decision, shadow_result)]
    /\ promotion_call' = NoPromotionCall
    /\ UNCHANGED notPromotion

NextPromotion ==
    \/ EvaluatePromotion
    \/ Resolve
    \/ ResolveDirect

PromotionInit ==
    /\ TradeIdle /\ MarketIdle /\ DatasetIdle /\ RiskIdle /\ EvaluatorIdle
    /\ InitPromotion
    /\ TrainerIdle /\ KrakenIdle
    /\ RegistryIdle /\ TasksIdle

SpecPromotion == PromotionInit /\ [][NextPromotion]_vars

(***************************************************************************)
(* C12  evaluate_promotion approves iff all six criteria hold (accuracy    *)
(* gain of at least 2%, Brier score not above the champion's, abstain rate *)
(* within 15%..40% inclusive, no regime degraded by more than 5%,          *)
(* consistency variance below 0.05, candidate dataset number above the     *)
(* champion's with a missing number counting as -1); approved holds        *)
(* exactly when reasons is empty; and reasons has one entry per failing    *)
(* criterion, the regime criterion giving one entry per degraded regime.   *)
(***************************************************************************)
\* The number a dataset version is meant to carry, stated independently
IntendedNumber(version) ==
    CASE version = <<"v", "9">>                -> 9
      [] version = <<"v", "1", "0">>           -> 10
      [] version = <<"v", "1", "1">>           -> 11
      [] version = <<"d", "e", "v">>           -> 0 - 1
      [] version = <<"r", "2", "-", "1", "5">> -> 2
      [] version = <<"0", "0", "7">>           -> 7

DegradedRegimes(champion, candidate) ==
    {r \in RegimeSet :
        (IF r \in DOMAIN champion.regime_accuracy THEN champion.regime_accuracy[r] ELSE 0)
      - (IF r \in DOMAIN candidate.regime_accuracy THEN candidate.regime_accuracy[r] ELSE 0)
      > 500}

AccuracyCriterion(c) == c.candidate.signal_accuracy - c.champion.signal_accuracy >= 200
BrierCriterion(c)    == c.candidate.brier_score <= c.champion.brier_score
AbstainCriterion(c)  == 1500 <= c.candidate.abstain_rate /\ c.candidate.abstain_rate <= 4000
RegimeCriterion(c)   == DegradedRegimes(c.champion, c.candidate) = {}
VarianceCriterion(c) == c.candidate.consistency_variance < 500
VersionCriterion(c)  ==
    IntendedNumber(c.candidate_dataset_version) > IntendedNumber(c.champion_dataset_version)

FailingCount(c) ==
      (IF AccuracyCriterion(c) THEN 0 ELSE 1)
    + (IF BrierCriterion(c) THEN 0 ELSE 1)
    + (IF AbstainCriterion(c) THEN 0 ELSE 1)
    + Cardinality(DegradedRegimes(c.champion, c.candidate))
    + (IF VarianceCriterion(c) THEN 0 ELSE 1)
    + (IF VersionCriterion(c) THEN 0 ELSE 1)

C12_PromotionCriteria ==
    promotion_call.pc = "returned" =>
        /\ promotion_call.decision.approved <=>
              /\ AccuracyCriterion(promotion_call)
              /\ BrierCriterion(promotion_call)
              /\ AbstainCriterion(promotion_call)
              /\ RegimeCriterion(promotion_call)
              /\ VarianceCriterion(promotion_call)
              /\ VersionCriterion(promotion_call)
        /\ promotion_call.decision.approved <=> promotion_call.decision.reasons = << >>
        /\ Len(promotion_call.decision.reasons) = FailingCount(promotion_call)

C12_Witness ==
    /\ promotion_call.pc = "returned"
    /\ Cardinality(DegradedRegimes(promotion_call.champion, promotion_call.candidate)) = 2
    /\ promotion_call.candidate.abstain_rate = 4000
    /\ promotion_call.candidate_dataset_version = <<"d", "e", "v">>
    /\ Len(promotion_call.decision.reasons) = 3

(***************************************************************************)
(* C13  resolve promotes iff the evaluation decision is approved and the   *)
(* shadow agreement rate is at least 85%; when both fail the evaluation    *)
(* rejection is the one reported; the previous champion is retained for 90 *)
(* days on every path; the failure streak is reset iff promoted.           *)
(***************************************************************************)
C13_ResolveGate ==
    resolve_call.pc = "returned" =>
        /\ resolve_call.result.promoted <=>
              /\ resolve_call.evaluation_decision.approved
              /\ resolve_call.shadow_result.agreement_rate >= 8500
        /\ ~resolve_call.evaluation_decision.approved =>
              resolve_call.result.reason = "Evaluation gate rejected candidate."
        /\ (/\ resolve_call.evaluation_decision.approved
            /\ resolve_call.shadow_result.agreement_rate < 8500) =>
              resolve_call.result.reason
                  = "Shadow agreement below 85%; human review required."
        /\ resolve_call.result.retain_previous_for_days = 90
        /\ resolve_call.result.reset_failure_streak <=> resolve_call.result.promoted

C13_Witness ==
    /\ resolve_call.pc = "returned"
    /\ ~resolve_call.evaluation_decision.approved
    /\ resolve_call.evaluation_decision.reasons # << >>
    /\ resolve_call.shadow_result.agreement_rate = 8499
    /\ ~resolve_call.result.promoted
    /\ resolve_call.result.reason = "Evaluation gate rejected candidate."

(***************************************************************************)
(* C14  When several directions share the maximum weighted vote score,     *)
(* aggregate chooses the one that comes first in the declared order buy,   *)
(* sell, hold, abstain, whatever the order of the responses.               *)
(***************************************************************************)
TopDirections(votes) ==
    {votes[i].direction : i \in {k \in 1..Len(votes) :
                                    \A j \in 1..Len(votes) : votes[j].score <= votes[k].score}}

FirstDeclared(ds) ==
    Directions[CHOOSE i \in 1..Len(Directions) :
                   /\ Directions[i] \in ds
                   /\ \A j \in 1..(i - 1) : Directions[j] \notin ds]

C14_TieBreakDeclaredOrder ==
    (/\ origin = "aggregate"
     /\ Cardinality(TopDirections(decision.weighted_votes)) >= 2) =>
        decision.direction = FirstDeclared(TopDirections(decision.weighted_votes))

(***************************************************************************)
(* C15  A response contributes to the votes iff its status is success and  *)
(* its confidence is at least min_confidence.  When no response qualifies  *)
(* (no responses, only error or abstain statuses, or confidences below the *)
(* minimum) aggregate returns a decision with direction abstain,           *)
(* confidence 0, approved false and position_size 0, whatever the risk     *)
(* assessment.                                                             *)
(***************************************************************************)
Qualifies(response) == response.status = "success" /\ response.confidence >= 60

\* The score direction d gets from the qualifying responses alone
QualifiedScore(rs, w, d) ==
    SumOver([i \in 1..Len(rs) |->
                IF Qualifies(rs[i]) /\ rs[i].direction = d
                THEN rs[i].confidence
                     * (IF rs[i].agent_id \in DOMAIN w
                        THEN w[rs[i].agent_id].num * 100
                        ELSE 5 * WeightDen(w))
                ELSE 0],
            1..Len(rs))

C15_QualifyingVotes ==
    (origin = "aggregate" /\ phase = "decided") =>
        /\ \A d \in DirectionSet :
              /\ (\E i \in 1..Len(decision.weighted_votes) :
                     decision.weighted_votes[i].direction = d)
                 <=> (\E i \in 1..Len(responses) :
                         Qualifies(responses[i]) /\ responses[i].direction = d)
              /\ \A i \in 1..Len(decision.weighted_votes) :
                     decision.weighted_votes[i].direction = d =>
                         decision.weighted_votes[i].score
                             = QualifiedScore(responses, weights, d)
        /\ (\A i \in 1..Len(responses) : ~Qualifies(responses[i])) =>
              /\ decision.direction = "abstain"
              /\ decision.confidence.num = 0
              /\ ~decision.approved
              /\ decision.position_size = 0

\* Two responses, one with an error status and one below the minimum
\* confidence, were aggregated under an approving risk assessment.
C15_Witness ==
    /\ origin = "aggregate" /\ phase = "decided"
    /\ Len(responses) = 2
    /\ responses[1].status = "error"
    /\ responses[2].status = "success" /\ responses[2].confidence = 50
    /\ risk_assessment.approved /\ risk_assessment.adjusted_size > 0
    /\ decision.direction = "abstain"
    /\ ~decision.approved

(***************************************************************************)
(* TrainerAgent  (agents/trainer_agent.py)                                 *)
(*                                                                         *)
(* begin_run and complete_run are called from concurrent threads.  Each    *)
(* call takes self._lock, runs its body and releases the lock on leaving   *)
(* the `with` block.  `holds` records that the caller's last begin_run     *)
(* returned True and it has not completed the run since; `trigger` is the  *)
(* value its last should_trigger returned; `misuse` records                *)
(* that complete_run was ever called by a caller that did not hold a run.  *)
(***************************************************************************)
NumThreads == 2
MaxStreak  == 2
min_outcomes == 500

ThreadNames == <<"thread-1", "thread-2", "thread-3", "thread-4">>
Threads == {ThreadNames[i] : i \in 1..NumThreads}

TrainingState == [running |-> FALSE, failure_streak |-> 0]

CallerIdle == [pc |-> "idle", holds |-> FALSE, ret |-> None, succeeded |-> FALSE, trigger |-> FALSE]

\* begin_run without the test of `running`.
begin_run_unchecked(state) ==
    [state |-> [state EXCEPT !.running = TRUE], ret |-> TRUE]

\* The body of begin_run, under the lock
begin_run(state) ==
    IF state.running
    THEN [state |-> state, ret |-> FALSE]
    ELSE [state |-> [state EXCEPT !.running = TRUE], ret |-> TRUE]

\* complete_run that counts every completed run as a failure.
complete_run_never_reset(state, succeeded) ==
    [state EXCEPT !.running = FALSE, !.failure_streak = @ + 1]

\* TrainerAgent.should_trigger
should_trigger(outcome_record_count) == outcome_record_count >= min_outcomes

\* The body of complete_run, under the lock
complete_run(state, succeeded) ==
    [state EXCEPT !.running = FALSE,
                  !.failure_streak = IF succeeded THEN 0 ELSE @ + 1]

InitTrainer ==
    /\ training_state = TrainingState
    /\ trainer_lock = None
    /\ callers = [t \in Threads |-> CallerIdle]
    /\ misuse = FALSE

\* A thread calls begin_run
BeginRunCall(t) ==
    /\ callers[t].pc = "idle"
    /\ callers' = [callers EXCEPT ![t].pc = "begin_acquire", ![t].ret = None]
    /\ UNCHANGED <<training_state, trainer_lock, misuse>>
    /\ UNCHANGED notTrainer

\* A thread calls complete_run(succeeded)
CompleteRunCall(t) ==
    /\ callers[t].pc = "idle"
    /\ \E succeeded \in BOOLEAN :
          /\ succeeded \/ training_state.failure_streak < MaxStreak
          /\ callers' = [callers EXCEPT ![t].pc = "complete_acquire",
                                        ![t].ret = None,
                                        ![t].succeeded = succeeded]
    /\ misuse' = (misuse \/ ~callers[t].holds)
    /\ UNCHANGED <<training_state, trainer_lock>>
    /\ UNCHANGED notTrainer

\* A thread calls should_trigger, which takes no lock
ShouldTrigger(t) ==
    /\ callers[t].pc = "idle"
    /\ \E outcome_record_count \in {min_outcomes - 1, min_outcomes} :
          callers' = [callers EXCEPT ![t].trigger = should_trigger(outcome_record_count)]
    /\ UNCHANGED <<training_state, trainer_lock, misuse>>
    /\ UNCHANGED notTrainer

\* `with self._lock:` is entered
AcquireLock(t) ==
    /\ callers[t].pc \in {"begin_acquire", "complete_acquire"}
    /\ trainer_lock = None
    /\ trainer_lock' = t
    /\ callers' = [callers EXCEPT
                      ![t].pc = IF @ = "begin_acquire" THEN "begin_body"
                                ELSE "complete_body"]
    /\ UNCHANGED <<training_state, misuse>>
    /\ UNCHANGED notTrainer

BeginRunBody(t) ==
    /\ callers[t].pc = "begin_body"
    /\ LET out == begin_run(training_state)
       IN  /\ training_state' = out.state
           /\ callers' = [callers EXCEPT ![t].pc = "exit", ![t].ret = out.ret,
                                         ![t].holds = @ \/ out.ret]
    /\ UNCHANGED <<trainer_lock, misuse>>
    /\ UNCHANGED notTrainer

CompleteRunBody(t) ==
    /\ callers[t].pc = "complete_body"
    /\ training_state.failure_streak < MaxStreak \/ callers[t].succeeded
    /\ training_state' = complete_run(training_state, callers[t].succeeded)
    /\ callers' = [callers EXCEPT ![t].pc = "exit", ![t].holds = FALSE]
    /\ UNCHANGED <<trainer_lock, misuse>>
    /\ UNCHANGED notTrainer

\* The `with` block is left and the call returns
ReleaseLock(t) ==
    /\ callers[t].pc = "exit"
    /\ trainer_lock = t
    /\ trainer_lock' = None
    /\ callers' = [callers EXCEPT ![t].pc = "idle"]
    /\ UNCHANGED <<training_state, misuse>>
    /\ UNCHANGED notTrainer

NextTrainer ==
    \/ \E t \in Threads : BeginRunCall(t)
    \/ \E t \in Threads : CompleteRunCall(t)
    \/ \E t \in Threads : ShouldTrigger(t)
    \/ \E t \in Threads : AcquireLock(t)
    \/ \E t \in Threads : BeginRunBody(t)
    \/ \E t \in Threads : CompleteRunBody(t)
    \/ \E t \in Threads : ReleaseLock(t)

TrainerInit ==
    /\ TradeIdle /\ MarketIdle /\ DatasetIdle /\ RiskIdle /\ EvaluatorIdle
    /\ PromotionIdle
    /\ InitTrainer
    /\ KrakenIdle
    /\ RegistryIdle /\ TasksIdle

SpecTrainer == TrainerInit /\ [][NextTrainer]_vars

(***************************************************************************)
(* C16  As long as complete_run is called only by a caller whose begin_run *)
(* returned True, at most one caller holds an active run at any time, a    *)
(* begin_run returns True only when no run is active (so a complete_run    *)
(* lies between any two that return True), and a begin_run that finds a    *)
(* run active returns False and changes nothing.                           *)
(***************************************************************************)
Holders == {t \in Threads : callers[t].holds}

C16_SingleActiveRun ==
    /\ [](~misuse =>
            /\ Cardinality(Holders) <= 1
            /\ training_state.running <=> Holders # {})
    /\ [][\A t \in Threads :
            (callers[t].pc = "begin_body" /\ callers'[t].pc = "exit") =>
                /\ (~misuse /\ callers'[t].ret = TRUE) =>
                      /\ Holders = {}
                      /\ Holders' = {t}
                /\ training_state.running =>
                      /\ callers'[t].ret = FALSE
                      /\ training_state' = training_state
                      /\ \A u \in Threads : callers'[u].holds = callers[u].holds]_vars

\* After a failed run was completed, one thread holds a new run and another
\* thread's begin_run has just returned False.
C16_Witness ==
    /\ ~misuse
    /\ training_state.failure_streak = 1
    /\ callers["thread-1"].holds
    /\ callers["thread-2"].pc = "exit"
    /\ callers["thread-2"].ret = FALSE
    /\ training_state.running

(***************************************************************************)
(* C26  failure_streak is the number of complete_run(succeeded = false)    *)
(* calls since the last complete_run(succeeded = true), or since           *)
(* construction: it starts at 0, a complete_run sets it to 0 on success    *)
(* and adds 1 on failure, and nothing else (begin_run, should_trigger,     *)
(* taking or releasing the lock) changes it; every complete_run leaves     *)
(* running = false.                                                        *)
(***************************************************************************)
Completes(t) == callers[t].pc = "complete_body" /\ callers'[t].pc = "exit"

C26_FailureStreakCounts ==
    /\ training_state.failure_streak = 0
    /\ [][/\ \A t \in Threads :
                Completes(t) =>
                   /\ training_state'.failure_streak
                         = IF callers[t].succeeded THEN 0
                           ELSE training_state.failure_streak + 1
                   /\ ~training_state'.running
          /\ (\A t \in Threads : ~Completes(t)) =>
                training_state'.failure_streak = training_state.failure_streak]_vars

\* Two failed runs were completed in a row, the second just now, while the
\* other thread has asked should_trigger.
C26_Witness ==
    /\ training_state.failure_streak = 2
    /\ ~training_state.running
    /\ callers["thread-1"].pc = "exit"
    /\ ~callers["thread-1"].succeeded
    /\ callers["thread-2"].pc = "idle"
    /\ callers["thread-2"].trigger

(***************************************************************************)
(* C30  For any sequence of begin_run and complete_run calls by any        *)
(* callers, running is true exactly while the caller whose begin_run       *)
(* returned True has not yet completed its run: a complete_run made when   *)
(* no run is active, or by a caller that holds no run, neither releases    *)
(* another caller's run nor changes failure_streak.                        *)
(***************************************************************************)
C30_OnlyHolderCompletes ==
    /\ [](training_state.running <=> Holders # {})
    /\ [][\A t \in Threads :
            (Completes(t) /\ ~callers[t].holds) =>
                training_state' = training_state]_vars

(***************************************************************************)
(* Evaluator.compute_metrics  (training/evaluator.py)                      *)
(*                                                                         *)
(* self._rng = Random(seed) is created once, in __init__.  eval_rng is the *)
(* number of 32-bit words the instance has drawn from it.  Rates are the   *)
(* rationals num/den; confidences are in percent.                          *)
(***************************************************************************)
MaxPredictions == 4
MaxEvalDraws   == 24

\* The top five bits of the successive 32-bit words of Random(seed) for the
\* default seed, 11;
\* getrandbits(k) for k <= 5 is the top k bits of the next word.
EvaluatorWords ==
    <<
       14, 27, 17, 27, 29, 24, 14, 14, 16, 27, 18,  6,  5, 25, 16, 15, 20, 19, 25,  5,
        3, 14,  9,  4,  2, 17, 25, 28, 22, 20,  1, 19, 31, 12, 30, 14, 20, 23, 19, 20,
        5, 19,  0, 26, 16,  2,  1,  1,  6, 28,  7, 19,  0, 24, 14, 10, 14, 18, 26,  6,
       16,  7, 20,  9, 15,  0, 21,  2, 14, 20,  8, 13, 31, 17, 31, 29, 26,  2, 22,  8,
       10, 24,  7, 16,  9,  0,  2, 18, 24,  3, 12,  3, 27,  9, 12,  2, 30,  0, 27, 21,
        0,  6,  6, 29, 29,  1, 15, 12, 31, 22, 12, 13,  2, 18, 20,  6, 24, 21,  8, 10,
        2,  9, 10,  0, 30, 13, 24, 29,  3,  4,  7, 22,  3,  0,  1, 14, 25, 15,  5, 21,
       17,  6, 14, 16,  6, 31, 23, 24,  4, 13, 20, 12,  3, 12, 13, 31,  6,  0,  8, 27,
       31, 31, 25, 18,  9, 31, 28,  0,  6,  5, 12, 31, 27, 19, 20, 18,  3,  1, 31,  4,
        6, 14,  8,  0, 24, 19, 10, 26,  9, 12,  2,  2,  2,  6, 18, 20,  7,  0, 19, 11,
       11, 19, 14,  4, 30, 18, 15, 26, 18,  4, 27, 12,  5, 20,  4,  9, 29,  7, 26, 19,
        7, 23,  6,  5, 23, 20, 30, 17,  6, 21, 30, 12, 28, 15, 19,  2, 13,  1,  3,  3
    >>

getrandbits(k, rng) == EvaluatorWords[rng + 1] \div (2 ^ (5 - k))

bit_length(n) == CHOOSE k \in 0..5 : 2 ^ k > n /\ (k = 0 \/ 2 ^ (k - 1) <= n)

\* Random._randbelow: draw bit_length(n) bits until the value is below n
RECURSIVE _randbelow(_, _)
_randbelow(n, rng) ==
    LET r == getrandbits(bit_length(n), rng)
    IN  IF r < n THEN [value |-> r, rng |-> rng + 1] ELSE _randbelow(n, rng + 1)

\* Random.sample(population, k) for a population of at most 21 items
RECURSIVE sample_loop(_, _, _, _, _)
sample_loop(pool, i, k, result, rng) ==
    IF i = k THEN [result |-> result, rng |-> rng]
    ELSE LET n    == Len(pool)
             draw == _randbelow(n - i, rng)
             j    == draw.value + 1
         IN  sample_loop([pool EXCEPT ![j] = pool[n - i]], i + 1, k,
                         Append(result, pool[j]), draw.rng)

sample(population, k, rng) == sample_loop(population, 0, k, << >>, rng)

Matches(rows) ==
    Len(SelectSeq(rows, LAMBDA row : row.predicted_profitable = row.actual_profitable))

Signals(rows) == SelectSeq(rows, LAMBDA row : ~row.abstained)

RECURSIVE Factorial(_)
Factorial(n) == IF n <= 1 THEN 1 ELSE n * Factorial(n - 1)

\* max(1, int(len(predictions) * 0.7)): for every length up to 20 the float
\* product truncates to the exact floor of 7 * len / 10.
sample_size_floor(total) == Max(1, (total * 7) \div 10)

\* The `for _ in range(5)` loop of _compute_consistency_variance.  Each
\* accuracy matches/len(signals) is kept as an integer over sample_size!.
RECURSIVE variance_loop(_, _, _, _, _, _)
variance_loop(predictions, sample_size, i, accuracies, sizes, rng) ==
    IF i = 5 THEN [accuracies |-> accuracies, sizes |-> sizes, rng |-> rng]
    ELSE LET drawn   == sample(predictions, sample_size, rng)
             signals == Signals(drawn.result)
             acc     == IF signals = << >> THEN 0
                        ELSE Matches(signals) * (Factorial(sample_size) \div Len(signals))
         IN  variance_loop(predictions, sample_size, i + 1, Append(accuracies, acc),
                           Append(sizes, Len(drawn.result)), drawn.rng)

\* Evaluator._compute_consistency_variance
_compute_consistency_variance(predictions, rng) ==
    LET sample_size == sample_size_floor(Len(predictions))
        out   == variance_loop(predictions, sample_size, 0, << >>, << >>, rng)
        total == SumOver(out.accuracies, 1..5)
    IN  [value |-> [num |-> SumOver([i \in 1..5 |->
                                        (5 * out.accuracies[i] - total)
                                      * (5 * out.accuracies[i] - total)], 1..5),
                    den |-> 125 * Factorial(sample_size) * Factorial(sample_size)],
         sizes |-> out.sizes,
         rng   |-> out.rng]

BrierTerm(row) ==
    LET probability == IF row.abstained THEN 50
                       ELSE IF row.predicted_profitable THEN row.confidence
                       ELSE 100 - row.confidence
        target == IF row.actual_profitable THEN 100 ELSE 0
    IN  (probability - target) * (probability - target)

\* Evaluator.compute_metrics for a non-empty list
compute_metrics(predictions, rng) ==
    LET signal_rows == Signals(predictions)
        total       == Len(predictions)
        variance    == _compute_consistency_variance(predictions, rng)
    IN  [metrics |->
            [signal_accuracy |-> [num |-> Matches(signal_rows),
                                  den |-> Max(1, Len(signal_rows))],
             abstain_rate |-> [num |-> total - Len(signal_rows), den |-> total],
             brier_score |-> [num |-> SumOver([i \in 1..total |->
                                                  BrierTerm(predictions[i])], 1..total),
                              den |-> 10000 * total],
             regime_accuracy |->
                 [regime \in RegimeSet |->
                     LET regime_rows == SelectSeq(signal_rows,
                                                  LAMBDA row : row.regime = regime)
                     IN  IF regime_rows = << >> THEN [num |-> 0, den |-> 1]
                         ELSE [num |-> Matches(regime_rows), den |-> Len(regime_rows)]],
             consistency_variance |-> variance.value],
         sizes |-> variance.sizes,
         rng |-> variance.rng]

HoldoutPrediction(regime, predicted_profitable, actual_profitable, confidence, abstained) ==
    [regime |-> regime, predicted_profitable |-> predicted_profitable,
     actual_profitable |-> actual_profitable, confidence |-> confidence,
     abstained |-> abstained]

HoldoutPredictions ==
    { HoldoutPrediction("trending_bull", TRUE, TRUE, 70, FALSE),
      HoldoutPrediction("trending_bear", FALSE, TRUE, 60, FALSE),
      HoldoutPrediction("high_volatility", TRUE, FALSE, 90, TRUE) }

NoMetricsCall ==
    [pc |-> "none", calls |-> 0, predictions |-> << >>,
     consistency_variance |-> [num |-> 0, den |-> 1], sizes |-> << >>,
     metrics |-> << >>]

InitEvaluator ==
    /\ eval_rng = 0
    /\ metrics_call = NoMetricsCall

\* Evaluator(seed): another instance takes the place of the current one
NewEvaluator ==
    /\ eval_rng' = 0
    /\ metrics_call' = [metrics_call EXCEPT !.calls = 0]
    /\ eval_rng # 0
    /\ UNCHANGED notEval

\* Evaluator.compute_metrics
ComputeMetrics ==
    /\ eval_rng < MaxEvalDraws
    /\ \E predictions \in SeqsUpTo(HoldoutPredictions, MaxPredictions) \ {<< >>} :
          \E out \in {compute_metrics(predictions, eval_rng)} :
             /\ metrics_call' = [pc |-> "returned",
                                 calls |-> metrics_call.calls + 1,
                                 predictions |-> predictions,
                                 consistency_variance |->
                                     out.metrics.consistency_variance,
                                 sizes |-> out.sizes,
                                 metrics |-> out.metrics]
             /\ eval_rng' = out.rng
    /\ UNCHANGED notEval

\* compute_metrics([]) raises ValueError before anything is drawn
ComputeMetricsEmpty ==
    /\ metrics_call.pc # "raised"
    /\ metrics_call' = [NoMetricsCall EXCEPT !.pc = "raised",
                                             !.calls = metrics_call.calls]
    /\ UNCHANGED eval_rng
    /\ UNCHANGED notEval

NextEvaluator ==
    \/ NewEvaluator
    \/ ComputeMetrics
    \/ ComputeMetricsEmpty

EvaluatorInit ==
    /\ TradeIdle /\ MarketIdle /\ DatasetIdle /\ RiskIdle
    /\ InitEvaluator
    /\ PromotionIdle /\ TrainerIdle /\ KrakenIdle
    /\ RegistryIdle /\ TasksIdle

SpecEvaluator == EvaluatorInit /\ [][NextEvaluator]_vars

(***************************************************************************)
(* C17  Two compute_metrics calls on identical prediction lists by         *)
(* evaluators with the same seed return the same consistency_variance,     *)
(* whether the second call is made on another instance or on the same one. *)
(***************************************************************************)
C17_VarianceReproducible ==
    [][(/\ metrics_call.pc = "returned"
        /\ metrics_call'.pc = "returned"
        /\ metrics_call'.calls = metrics_call.calls + 1
        /\ metrics_call'.predictions = metrics_call.predictions) =>
           metrics_call'.consistency_variance = metrics_call.consistency_variance]_vars

(***************************************************************************)
(* C24  For every non-empty prediction list of size total, each of the 5   *)
(* subsamples drawn for consistency_variance has size ceil(0.7 x total).   *)
(***************************************************************************)
C24_SubsampleSizeIsCeiling ==
    metrics_call.pc = "returned" =>
        /\ Len(metrics_call.sizes) = 5
        /\ \A i \in 1..Len(metrics_call.sizes) :
              metrics_call.sizes[i] = CeilDiv(7 * Len(metrics_call.predictions), 10)

(***************************************************************************)
(* KrakenOrderManager.place_order  (tools/order_manager.py)                *)
(*                                                                         *)
(* kraken_client tells whether self._client is set.  place_order is a      *)
(* coroutine that suspends in client.create_order (pc = "awaiting").       *)
(* Whether `import ccxt.async_support` succeeds depends on the             *)
(* installation and is chosen at the call.                                 *)
(***************************************************************************)
OrderRequest(symbol, side, quantity, order_type, exchange, price) ==
    [symbol |-> symbol, side |-> side, quantity |-> quantity,
     order_type |-> order_type, exchange |-> exchange, price |-> price]

OrderResponse(accepted, order_id, reason, retryable) ==
    [accepted |-> accepted, order_id |-> order_id, reason |-> reason,
     retryable |-> retryable]

OrderRequests ==
    { OrderRequest("BTC/USD", side, quantity, order_type, exchange, price) :
        side \in {"buy", "sell"}, quantity \in {0 - 1, 0, 1},
        order_type \in {"market", "limit"}, exchange \in {"kraken", "alpaca"},
        price \in {None, "100"} }

\* What client.create_order does: it returns a dict whose "id" is `id`, or raises
CreateOrderOutcomes ==
    { [kind |-> "return", id |-> id, exc |-> None] : id \in {None, "OID-1", "17"} }
    \cup
    { [kind |-> "raise", id |-> None, exc |-> exc] :
        exc \in {"TimeoutError", "ConnectionError", "ConnectionResetError",
                 "ValueError", "KeyError"} }

\* except (TimeoutError, ConnectionError): the classes and their subclasses
IsTransient(exc) == exc \in {"TimeoutError", "ConnectionError", "ConnectionResetError"}

NoResponse == OrderResponse(FALSE, None, None, FALSE)

NoKrakenCall ==
    [pc |-> "idle", request |-> OrderRequest(None, None, 0, None, None, None),
     create_calls |-> 0, outcome |-> [kind |-> None, id |-> None, exc |-> None],
     response |-> NoResponse, error |-> None]

KrakenReturn(pending, response) == [pending EXCEPT !.pc = "returned", !.response = response]

\* place_order up to its first suspension, return or raise.  `importable`
\* is the outcome of `import ccxt.async_support` in _get_or_create_client.
place_order_enter(request, client, importable) ==
    LET pending == [NoKrakenCall EXCEPT !.request = request]
    IN  IF request.exchange # "kraken"
        THEN KrakenReturn(pending, OrderResponse(FALSE, None,
                 "Kraken manager received non-Kraken exchange request.", FALSE))
        ELSE IF request.quantity <= 0
        THEN KrakenReturn(pending, OrderResponse(FALSE, None,
                 "Order quantity must be positive.", FALSE))
        ELSE IF request.order_type = "limit" /\ request.price = None
        THEN KrakenReturn(pending, OrderResponse(FALSE, None,
                 "Limit order requires explicit price.", FALSE))
        ELSE IF ~client /\ ~importable
        THEN [pending EXCEPT !.pc = "raised", !.error = "RuntimeError"]
        ELSE [pending EXCEPT !.pc = "awaiting", !.create_calls = 1]

\* place_order from the return or raise of client.create_order on
place_order_finish(pending, outcome) ==
    LET done == [pending EXCEPT !.outcome = outcome]
    IN  IF outcome.kind = "return"
        THEN KrakenReturn(done,
                 OrderResponse(outcome.id # None, outcome.id,
                               IF outcome.id # None THEN "Order accepted by Kraken."
                               ELSE "Kraken did not return order id.",
                               FALSE))
        ELSE IF IsTransient(outcome.exc)
        THEN KrakenReturn(done,
                 OrderResponse(FALSE, None,
                               "Transient Kraken API error: " \o outcome.exc, TRUE))
        ELSE KrakenReturn(done,
                 OrderResponse(FALSE, None,
                               "Kraken order rejected: " \o outcome.exc, FALSE))

\* KrakenOrderManager(...), with or without an injected client
InitKraken ==
    /\ kraken_client \in BOOLEAN
    /\ kraken_call = NoKrakenCall

PlaceOrder ==
    /\ kraken_call.pc # "awaiting"
    /\ \E request \in OrderRequests, importable \in BOOLEAN :
          /\ kraken_call' = place_order_enter(request, kraken_client, importable)
          /\ kraken_client' = (kraken_client \/ kraken_call'.pc = "awaiting")
    /\ UNCHANGED notKraken

CreateOrderReturns ==
    /\ kraken_call.pc = "awaiting"
    /\ \E outcome \in CreateOrderOutcomes :
          kraken_call' = place_order_finish(kraken_call, outcome)
    /\ UNCHANGED kraken_client
    /\ UNCHANGED notKraken

NextKraken ==
    \/ PlaceOrder
    \/ CreateOrderReturns

KrakenInit ==
    /\ TradeIdle /\ MarketIdle /\ DatasetIdle /\ RiskIdle /\ EvaluatorIdle
    /\ PromotionIdle /\ TrainerIdle
    /\ InitKraken
    /\ RegistryIdle /\ TasksIdle

SpecKraken == KrakenInit /\ [][NextKraken]_vars

(***************************************************************************)
(* C18  place_order classifies every outcome.  A request for another       *)
(* exchange, with quantity <= 0, or a limit order without price is         *)
(* rejected with retryable false and create_order is not called.           *)
(* Otherwise retryable is true exactly when create_order raised a          *)
(* TimeoutError or ConnectionError, any other exception gives accepted     *)
(* false and retryable false, and accepted is true exactly when            *)
(* create_order returned a non-null id.                                    *)
(***************************************************************************)
InvalidRequest(request) ==
    \/ request.exchange # "kraken"
    \/ request.quantity <= 0
    \/ request.order_type = "limit" /\ request.price = None

C18_EveryOutcomeClassified ==
    kraken_call.pc \in {"returned", "raised"} =>
        /\ kraken_call.pc = "returned"
        /\ IF InvalidRequest(kraken_call.request)
           THEN /\ ~kraken_call.response.accepted
                /\ ~kraken_call.response.retryable
                /\ kraken_call.create_calls = 0
           ELSE /\ kraken_call.response.retryable <=>
                      /\ kraken_call.outcome.kind = "raise"
                      /\ kraken_call.outcome.exc \in
                             {"TimeoutError", "ConnectionError", "ConnectionResetError"}
                /\ kraken_call.outcome.kind = "raise" => ~kraken_call.response.accepted
                /\ kraken_call.response.accepted <=>
                      /\ kraken_call.outcome.kind = "return"
                      /\ kraken_call.outcome.id # None

(***************************************************************************)
(* C19  When a provider's fetch_ohlcv raises a source-terminal error (a    *)
(* DataSourceError with retryable = False), get_trade_inputs skips the     *)
(* provider for this call and leaves its consecutive_failures and          *)
(* circuit_open_until unchanged; only retryable failures (timeout, stale   *)
(* snapshot, retryable DataSourceError) advance the circuit breaker.       *)
(***************************************************************************)
C19_TerminalErrorNoTick ==
    [][(/\ call.pc = "await"
        /\ call'.pc = "visit"
        /\ call'.log[Len(call'.log)][2].kind = "DataSourceErrorTerminal") =>
           LET source == call.providers[call.idx]
           IN  /\ call'.idx = call.idx + 1
               /\ call'.successful = call.successful
               /\ provider_state'[source] = provider_state[source]]_vars

(***************************************************************************)
(* C20  In live mode an exception of any kind raised by place_order on an  *)
(* attempt does not leave execute: the attempt counts as a retryable       *)
(* failure, and execute goes on to the next attempt or, after the last     *)
(* one, returns an ExecutionResult with success = false.                   *)
(***************************************************************************)
C20_ManagerExceptionsContained ==
    [][(/\ exec.pc = "placing"
        /\ exec'.pc # "placing"
        /\ exec'.mgr_log[Len(exec'.mgr_log)].kind = "raise") =>
           /\ exec'.pc \in {"sleeping", "done"}
           /\ exec'.pc = "sleeping" => exec'.attempt < max_retries
           /\ exec'.pc = "done" =>
                 /\ exec'.attempt = max_retries
                 /\ ~exec'.result.success]_vars

(***************************************************************************)
(* ExecutionAgent.execute as an asyncio task that its owner may cancel.    *)
(*                                                                         *)
(* Task.cancel() throws CancelledError into the coroutine at the await it  *)
(* is suspended in.  execute awaits place_order and asyncio.sleep directly *)
(* (lines 86 and 106), so the exception is delivered inside whichever of   *)
(* the two is running; CancelledError is a BaseException and passes the    *)
(* `except RuntimeError` handler.  A place_order call interrupted this way *)
(* never returns: it is counted in place_calls and has no entry in         *)
(* mgr_log.                                                                *)
(***************************************************************************)
\* execute at the delivery of CancelledError
on_cancel(e) == [e EXCEPT !.pc = "cancelled"]

InitExecute ==
    /\ weights = << >>
    /\ risk_assessment = NoAssessment
    /\ responses = << >>
    /\ decision \in DirectDecisions
    /\ origin = "direct"
    /\ live_trading \in BOOLEAN
    /\ max_retries \in 0..MaxRetriesCfg
    /\ exec = ExecIdle
    /\ phase = "execute"

\* The owner of the task calls cancel() while execute is suspended
CancelTask ==
    /\ phase = "execute"
    /\ exec.pc \in {"placing", "sleeping"}
    /\ exec' = on_cancel(exec)
    /\ UNCHANGED <<weights, risk_assessment, responses, decision, origin,
                   live_trading, max_retries, phase>>
    /\ UNCHANGED notTrade

NextExecute ==
    \/ Execute
    \/ PlaceOrderReturns
    \/ SleepReturns
    \/ CancelTask

ExecuteInit == InitExecute /\ MarketIdle /\ DatasetIdle /\ UnitsIdle

SpecExecute == ExecuteInit /\ [][NextExecute]_vars

(***************************************************************************)
(* C21  A cancellation of the task running execute never interrupts a      *)
(* place_order call in flight: every call that was started runs to         *)
(* completion before the cancellation takes effect, and execute is         *)
(* interrupted only between attempts, during the inter-attempt sleep.      *)
(***************************************************************************)
C21_NoCancelMidSubmission ==
    exec.pc = "cancelled" =>
        /\ exec.place_calls = Len(exec.mgr_log)
        /\ Len(exec.sleeps) = exec.attempt - 1
        /\ exec.attempt < max_retries

(***************************************************************************)
(* C22  In the live retry loop the sleep after the k-th failed attempt     *)
(* (k < max_retries) lasts initial_retry_delay_seconds * 2^(k-1); there is *)
(* exactly one sleep between consecutive attempts; and no sleep follows    *)
(* the last attempt or an attempt that ends the loop (accepted or          *)
(* non-retryable).  Durations are in units of initial_retry_delay_seconds. *)
(***************************************************************************)
FailedAttempt(o) ==
    \/ o.kind = "response" /\ ~o.accepted /\ o.retryable
    \/ o.kind = "raise" /\ o.exc = "RuntimeError"

C22_BackoffSchedule ==
    (phase = "execute" /\ live_trading /\ exec.attempt >= 1) =>
        /\ \A k \in 1..Len(exec.sleeps) : exec.sleeps[k] = 2 ^ (k - 1)
        /\ Len(exec.sleeps) = exec.attempt - 1
        /\ exec.pc = "sleeping" =>
              /\ exec.delay = 2 ^ (exec.attempt - 1)
              /\ exec.attempt < max_retries
              /\ Len(exec.mgr_log) = exec.attempt
              /\ FailedAttempt(exec.mgr_log[exec.attempt])
        /\ exec.pc = "placing" => Len(exec.mgr_log) = exec.attempt - 1
        /\ exec.pc \in {"done", "raised"} =>
              /\ Len(exec.mgr_log) = exec.attempt
              /\ \A k \in 1..(exec.attempt - 1) : FailedAttempt(exec.mgr_log[k])
              /\ (FailedAttempt(exec.mgr_log[exec.attempt]) /\ exec.pc = "done") =>
                    exec.attempt = max_retries

\* Two sleeps were taken and the third attempt ended the loop by exhaustion.
C22_Witness ==
    /\ phase = "execute" /\ live_trading
    /\ max_retries = 3
    /\ exec.pc = "done"
    /\ exec.sleeps = <<1, 2>>
    /\ exec.attempt = 3
    /\ exec.mgr_log[2].kind = "raise"
    /\ exec.result.reason = "Exhausted retries."

(***************************************************************************)
(* AdapterRegistry  (training/adapter_registry.py)                         *)
(*                                                                         *)
(* register reads the file, appends to the parsed list and writes the      *)
(* list back with Path.write_text, which opens the file truncating it and  *)
(* then writes from offset 0.  Nothing locks the file, so the steps of     *)
(* writers (threads or processes) interleave.  registry_file.entries is    *)
(* the last complete array written; registry_file.state tells what a       *)
(* reader finds: "json" (that array), "empty" (truncated, not yet          *)
(* rewritten) or "corrupt" (a shorter text written over a longer one).     *)
(***************************************************************************)
NumWriters       == 2
MaxRegistrations == 3

WriterNames == <<"writer-1", "writer-2", "writer-3", "writer-4">>
Writers == {WriterNames[i] : i \in 1..NumWriters}

AdapterRecord(agent_id, stage, run_id) ==
    [agent_id |-> agent_id, adapter_version |-> "adapter-v2",
     dataset_version |-> "v2", run_id |-> run_id, stage |-> stage]

NoRecord == AdapterRecord(None, None, None)

RegistrarIdle == [pc |-> "idle", calls |-> 0, record |-> NoRecord, payload |-> << >>]

Stages == {"shadow", "champion"}

\* latest_for_agent on a parsed payload
latest_for_agent(payload, agent_id, stage) ==
    LET filtered == SelectSeq(payload, LAMBDA entry :
                        entry.agent_id = agent_id /\ entry.stage = stage)
    IN  IF filtered = << >> THEN NoRecord ELSE filtered[Len(filtered)]

\* What write_text leaves in the file once its text is written.  The file
\* was truncated when this writer opened it; if another writer has written
\* a longer text since, the tail of that text remains after this one.
write_text(file, payload) ==
    IF file.state = "json" /\ Len(payload) < Len(file.entries)
    THEN [state |-> "corrupt", entries |-> file.entries]
    ELSE [state |-> "json", entries |-> payload]

\* AdapterRegistry.__init__ on a path with no file
InitRegistry ==
    /\ registry_file = [state |-> "json", entries |-> << >>]
    /\ registrars = [w \in Writers |-> RegistrarIdle]
    /\ registered = << >>
    /\ lookup = [pc |-> "none", agent_id |-> None, stage |-> None,
                 result |-> NoRecord, seen |-> << >>, quiet |-> TRUE]

CallsStarted == SumOver([w \in Writers |-> registrars[w].calls], Writers)

Quiet == \A w \in Writers : registrars[w].pc \in {"idle", "returned", "raised"}

\* register is called: the record is built (lines 43-50)
RegisterCall(w) ==
    /\ registrars[w].pc \in {"idle", "returned", "raised"}
    /\ CallsStarted < MaxRegistrations
    /\ \E stage \in Stages :
          registrars' = [registrars EXCEPT
              ![w] = [pc |-> "read", calls |-> @.calls + 1,
                      record |-> AdapterRecord("technical_agent", stage,
                                               <<w, @.calls + 1>>),
                      payload |-> << >>]]
    /\ UNCHANGED <<registry_file, registered, lookup>>
    /\ UNCHANGED notRegistry

\* payload = json.loads(read_text()); payload.append(record)  (lines 51-52)
RegisterRead(w) ==
    /\ registrars[w].pc = "read"
    /\ registrars' = [registrars EXCEPT
          ![w].pc = IF registry_file.state = "json" THEN "open" ELSE "raised",
          ![w].payload = IF registry_file.state = "json"
                         THEN Append(registry_file.entries, registrars[w].record)
                         ELSE << >>]
    /\ UNCHANGED <<registry_file, registered, lookup>>
    /\ UNCHANGED notRegistry

\* write_text opens the file, truncating it (line 53)
RegisterOpen(w) ==
    /\ registrars[w].pc = "open"
    /\ registry_file' = [registry_file EXCEPT !.state = "empty"]
    /\ registrars' = [registrars EXCEPT ![w].pc = "write"]
    /\ UNCHANGED <<registered, lookup>>
    /\ UNCHANGED notRegistry

\* write_text writes the text and register returns the record (lines 53-54)
RegisterWrite(w) ==
    /\ registrars[w].pc = "write"
    /\ registry_file' = write_text(registry_file, registrars[w].payload)
    /\ registrars' = [registrars EXCEPT ![w].pc = "returned"]
    /\ registered' = Append(registered, registrars[w].record)
    /\ UNCHANGED lookup
    /\ UNCHANGED notRegistry

\* AdapterRegistry.latest_for_agent
LatestForAgent ==
    /\ \E agent_id \in {"technical_agent", "research_agent"}, stage \in Stages :
          lookup' = [pc |-> IF registry_file.state = "json" THEN "returned" ELSE "raised",
                     agent_id |-> agent_id, stage |-> stage,
                     result |-> IF registry_file.state = "json"
                                THEN latest_for_agent(registry_file.entries,
                                                      agent_id, stage)
                                ELSE NoRecord,
                     seen |-> registered, quiet |-> Quiet]
    /\ UNCHANGED <<registry_file, registrars, registered>>
    /\ UNCHANGED notRegistry

NextRegistry ==
    \/ \E w \in Writers : RegisterCall(w)
    \/ \E w \in Writers : RegisterRead(w)
    \/ \E w \in Writers : RegisterOpen(w)
    \/ \E w \in Writers : RegisterWrite(w)
    \/ LatestForAgent

RegistryInit ==
    /\ TradeIdle /\ MarketIdle /\ DatasetIdle /\ RiskIdle /\ EvaluatorIdle
    /\ PromotionIdle /\ TrainerIdle /\ KrakenIdle
    /\ InitRegistry
    /\ TasksIdle

SpecRegistry == RegistryInit /\ [][NextRegistry]_vars

(***************************************************************************)
(* C23  For any interleaving of register calls on one registry file, from  *)
(* one writer or from concurrent writers, the stored array only grows by   *)
(* appending: every record register has returned is in the file            *)
(* afterwards, stored entries are never changed or reordered, and          *)
(* latest_for_agent(agent_id, stage) returns the last registered record    *)
(* with that agent_id and stage.                                           *)
(***************************************************************************)
IsPrefixOf(a, b) == Len(a) <= Len(b) /\ \A i \in 1..Len(a) : a[i] = b[i]

C23_AppendOnlyRegistry ==
    /\ [](Quiet =>
            /\ registry_file.state = "json"
            /\ \A i \in 1..Len(registered) :
                  \E j \in 1..Len(registry_file.entries) :
                      registry_file.entries[j] = registered[i])
    /\ [][IsPrefixOf(registry_file.entries, registry_file'.entries)]_vars
    /\ []((lookup.pc # "none" /\ lookup.quiet) =>
            /\ lookup.pc = "returned"
            /\ lookup.result
                  = latest_for_agent(lookup.seen, lookup.agent_id, lookup.stage))

(***************************************************************************)
(* C25  After constructing a Coordinator or calling update_weights, the    *)
(* active weights are empty (empty map given) or they sum to 1.0 and every *)
(* agent's active weight is at least min_agent_weight.                     *)
(***************************************************************************)
C25_WeightsSumToOneAboveFloor ==
    \/ DOMAIN weights = {}
    \/ /\ SumOver([a \in DOMAIN weights |-> weights[a].num], DOMAIN weights)
             = WeightDen(weights)
       /\ \A a \in DOMAIN weights :
             /\ weights[a].den = WeightDen(weights)
             /\ weights[a].num * 100 >= min_agent_weight * weights[a].den

(***************************************************************************)
(* Several get_trade_inputs calls on one MarketDataClient                  *)
(*                                                                         *)
(* Each call is an asyncio task on one event loop.  A task runs without    *)
(* interruption from one await to the next: while a task is between its    *)
(* awaits (pc = "visit") no other task steps and no time passes.  The only *)
(* await of get_trade_inputs is the provider's fetch_ohlcv.                *)
(***************************************************************************)
NumTasks    == 2
MaxTaskTime == 120

TaskNames == <<"task-a", "task-b", "task-c", "task-d">>
MarketTasks == {TaskNames[i] : i \in 1..NumTasks}

\* The outcomes of fetch_ohlcv the tasks are run with.
TaskFetchOutcomes(source) ==
    { Snapshot(source, 1, 1), FetchError("DataSourceError", "downstream timeout") }

InitMarketTasks ==
    /\ now = 0
    /\ provider_state = [name \in SourceNames |-> _ProviderState(0, NoTime)]
    /\ fail_streak = [name \in SourceNames |-> 0]
    /\ tasks = [k \in MarketTasks |-> CallIdle]

\* The event loop can run task k: no other task is between two awaits.
CanRun(k) == \A j \in MarketTasks \ {k} : tasks[j].pc # "visit"

\* The task is started and runs up to the loop over the candidates
TaskStart(k) ==
    /\ CanRun(k)
    /\ tasks[k].pc = "idle"
    /\ tasks' = [tasks EXCEPT ![k] = get_trade_inputs_enter("equity", "1h", 1)]
    /\ UNCHANGED <<now, provider_state, fail_streak>>
    /\ UNCHANGED notTasks

TaskVisit(k) ==
    /\ CanRun(k)
    /\ tasks[k].pc = "visit"
    /\ tasks[k].idx <= Len(tasks[k].providers)
    /\ tasks' = [tasks EXCEPT ![k] = loop_visit(tasks[k], provider_state, now)]
    /\ UNCHANGED <<now, provider_state, fail_streak>>
    /\ UNCHANGED notTasks

\* The task is resumed with the outcome of its fetch_ohlcv
TaskFetchReturns(k) ==
    /\ CanRun(k)
    /\ tasks[k].pc = "await"
    /\ LET source == tasks[k].providers[tasks[k].idx] IN
       \E outcome \in TaskFetchOutcomes(source) :
          /\ tasks' = [tasks EXCEPT ![k] = loop_resume(tasks[k], outcome)]
          /\ IF fetch_succeeds(tasks[k], outcome)
             THEN /\ provider_state' = _register_success(provider_state, source)
                  /\ fail_streak' = [fail_streak EXCEPT ![source] = 0]
             ELSE /\ provider_state' = _register_failure(provider_state, source, now)
                  /\ fail_streak' = [fail_streak EXCEPT ![source] = @ + 1]
    /\ UNCHANGED now
    /\ UNCHANGED notTasks

\* The loop is over: the task returns its bundle or raises, and is done
TaskFinish(k) ==
    /\ CanRun(k)
    /\ tasks[k].pc = "visit"
    /\ tasks[k].idx > Len(tasks[k].providers)
    /\ tasks' = [tasks EXCEPT ![k] = get_trade_inputs_finish(tasks[k])]
    /\ UNCHANGED <<now, provider_state, fail_streak>>
    /\ UNCHANGED notTasks

\* The result was taken; another call can be made in its place
TaskEnds(k) ==
    /\ CanRun(k)
    /\ tasks[k].pc \in {"returned", "raised"}
    /\ tasks' = [tasks EXCEPT ![k] = CallIdle]
    /\ UNCHANGED <<now, provider_state, fail_streak>>
    /\ UNCHANGED notTasks

\* Time passes, a cooldown at a time, while every task is suspended or done
TaskTick ==
    /\ \A k \in MarketTasks : tasks[k].pc # "visit"
    /\ now < MaxTaskTime
    /\ now' = now + circuit_cooldown_seconds
    /\ UNCHANGED <<provider_state, fail_streak, tasks>>
    /\ UNCHANGED notTasks

NextMarketTasks ==
    \/ \E k \in MarketTasks : TaskStart(k)
    \/ \E k \in MarketTasks : TaskVisit(k)
    \/ \E k \in MarketTasks : TaskFetchReturns(k)
    \/ \E k \in MarketTasks : TaskFinish(k)
    \/ \E k \in MarketTasks : TaskEnds(k)
    \/ TaskTick

MarketTasksInit ==
    /\ TradeIdle
    /\ InitMarketTasks /\ call = << >>
    /\ DatasetIdle /\ RiskIdle /\ EvaluatorIdle /\ PromotionIdle
    /\ TrainerIdle /\ KrakenIdle /\ RegistryIdle

SpecMarketTasks == MarketTasksInit /\ [][NextMarketTasks]_vars

(***************************************************************************)
(* C27  When get_trade_inputs calls on one client are interleaved at their *)
(* awaits, no failure tick or success reset is lost: after n failures of a *)
(* provider with no fresh snapshot in between, its counter is n mod        *)
(* max_provider_failures and its circuit has been opened at each multiple  *)
(* of max_provider_failures, as n sequential failure ticks would leave it; *)
(* a fresh snapshot resets it.                                             *)
(***************************************************************************)
C27_ProviderStateAtomic ==
    /\ [](\A source \in SourceNames :
            /\ provider_state[source].failures
                  = fail_streak[source] % max_provider_failures
            /\ (provider_state[source].circuit_open_until # NoTime)
                  <=> (fail_streak[source] >= max_provider_failures))
    /\ [][\A source \in SourceNames :
            LET before == provider_state[source]
                after  == provider_state'[source]
            IN  /\ fail_streak'[source] = fail_streak[source] + 1 =>
                      IF fail_streak'[source] % max_provider_failures = 0
                      THEN after = _ProviderState(0, now + circuit_cooldown_seconds)
                      ELSE after = _ProviderState(before.failures + 1,
                                                  before.circuit_open_until)
                /\ fail_streak'[source] = fail_streak[source] => after = before
                /\ fail_streak'[source] \notin {fail_streak[source],
                                                fail_streak[source] + 1} =>
                      /\ fail_streak'[source] = 0
                      /\ after = _ProviderState(0, NoTime)]_vars

\* Both tasks were inside the same provider's fetch_ohlcv when its circuit
\* opened: the failure of the second is counted on top of the open circuit.
C27_Witness ==
    /\ now = 0
    /\ \E source \in SourceNames :
          /\ fail_streak[source] = max_provider_failures + 1
          /\ provider_state[source] = _ProviderState(1, circuit_cooldown_seconds)
          /\ \E k \in MarketTasks :
                /\ tasks[k].pc = "visit"
                /\ tasks[k].idx > 1
                /\ tasks[k].providers[tasks[k].idx - 1] = source

====
